---- MODULE Spec2Model ----
(***************************************************************************)
(* A model of montoya: a byte-exact INI parser (iniParser.parse and its    *)
(* per-line handlers), the line/node model it builds, the streaming        *)
(* serializer (IniFile.Read / IniFile.Reset), the token classifier         *)
(* (convertToken / Tokenize) and the value state machine                   *)
(* (valueStringState).                                                     *)
(*                                                                         *)
(* Go pointers are modelled as indices into two heaps: `lines` (IniLine    *)
(* objects) and `nodes` (IniNode objects); index 0 is the nil pointer.     *)
(* Bytes are the integers 0..255, byte strings are sequences of them.      *)
(***************************************************************************)
EXTENDS Integers, Sequences, FiniteSets, TLC

VARIABLES
    pc,         \* position of the caller: "parsing", "parsed", "failed", "panic",
                \* "tokenizing", "tokenized", "value"
    consumed,   \* bytes the byte source has delivered so far, in order
    buf,        \* the one-byte read buffer of parse / Tokenize
    parser,     \* the iniParser fields (lineNo, colNo, currentNode, ...)
    file,       \* the IniFile fields (Head, Tail, readLine, done)
    lines,      \* heap of IniLine objects
    nodes,      \* heap of IniNode objects
    ret,        \* what Parse returned: [file, err]
    rd,         \* what the last IniFile.Read returned: [n, err]
    out,        \* bytes delivered by Read since Parse or since the last Reset
    prev,       \* bytes delivered in the pass that the last Reset ended
    prevDone,   \* whether that pass had delivered every line completely
    resets,     \* number of Reset calls so far
    tokens,     \* the []Token built by Tokenize
    content,    \* a value byte string handed to valueStringState
    state,      \* the state valueStringState returned for content
    calls       \* concurrent Parse invocations: per caller its iniParser and
                \* IniFile fields, consumed bytes, position and result; their
                \* line and node objects live in the heaps lines and nodes

vars == <<pc, consumed, buf, parser, file, lines, nodes, ret, rd, out, prev,
          prevDone, resets, tokens, content, state, calls>>

----------------------------------------------------------------------------
(* Bounds of the model *)

MaxLen == 4         \* longest input the byte source delivers to Parse
MaxBuf == 2         \* largest destination buffer handed to IniFile.Read
MaxResets == 1      \* most Reset calls on one IniFile
MaxTokens == 1      \* longest input handed to Tokenize
MaxValLen == 4      \* longest byte string handed to valueStringState
MaxCallLen == 2     \* longest input of each of two concurrent Parse invocations

----------------------------------------------------------------------------
(* Byte constants and byte-class tables *)

B_NULL == 0
B_NEWLINE == 10
B_SPACE == 32
B_TAB == 9
B_CR == 13
B_BRACKET == 91
B_BRACKETCLOSE == 93
B_HASH == 35
B_SEMICOLON == 59
B_EQUALS == 61
B_QUOTE == 34
B_BACKSLASH == 92
B_US == 31

Byte == 0..255

\* The bytes the modelled byte source may deliver to Parse: one or more of
\* every class the parser distinguishes.
Alphabet == {B_NULL, B_NEWLINE, B_SPACE, B_QUOTE, B_HASH, B_SEMICOLON,
             B_EQUALS, B_BRACKET, B_BACKSLASH, B_BRACKETCLOSE, 97}

\* The bytes handed to valueStringState: every class its automaton tells apart.
ValueAlphabet == {B_NULL, B_NEWLINE, B_SPACE, B_TAB, B_CR, B_QUOTE, B_HASH,
                  B_SEMICOLON, B_EQUALS, B_BACKSLASH, 97}

invertByteSet(invalid) == {b \in Byte : b \notin invalid}

invalidValueByteSetUnquoted == {B_NULL, B_NEWLINE, B_HASH, B_SEMICOLON, B_QUOTE}
validValueByteSetUnquoted == invertByteSet(invalidValueByteSetUnquoted)

invalidValueByteSetQuoted == {B_NULL, B_NEWLINE}

invalidKeyByteSet == (0..B_US) \cup {B_SPACE, B_EQUALS, B_BRACKET, B_BRACKETCLOSE}
validKeyByteSet == invertByteSet(invalidKeyByteSet)

----------------------------------------------------------------------------
(* Token classifier *)

Whitespace == 0
CommentStart == 1
SectionStart == 2
SectionEnd == 3
NewLine == 4
Equals == 5
Quote == 6
Other == 7

convertToken_CRasOther(rawByte) ==
    CASE rawByte = B_NEWLINE -> NewLine
      [] rawByte = B_BRACKET -> SectionStart
      [] rawByte = B_BRACKETCLOSE -> SectionEnd
      [] rawByte = B_EQUALS -> Equals
      [] rawByte \in {B_SEMICOLON, B_HASH} -> CommentStart
      [] rawByte = B_QUOTE -> Quote
      [] rawByte \in {B_SPACE, B_TAB} -> Whitespace
      [] OTHER -> Other

convertToken_SemicolonAsOther(rawByte) ==
    CASE rawByte = B_NEWLINE -> NewLine
      [] rawByte = B_BRACKET -> SectionStart
      [] rawByte = B_BRACKETCLOSE -> SectionEnd
      [] rawByte = B_EQUALS -> Equals
      [] rawByte = B_HASH -> CommentStart
      [] rawByte = B_QUOTE -> Quote
      [] rawByte \in {B_SPACE, B_TAB, B_CR} -> Whitespace
      [] OTHER -> Other

convertToken(rawByte) ==
    CASE rawByte = B_NEWLINE -> NewLine
      [] rawByte = B_BRACKET -> SectionStart
      [] rawByte = B_BRACKETCLOSE -> SectionEnd
      [] rawByte = B_EQUALS -> Equals
      [] rawByte \in {B_SEMICOLON, B_HASH} -> CommentStart
      [] rawByte = B_QUOTE -> Quote
      [] rawByte \in {B_SPACE, B_TAB, B_CR} -> Whitespace
      [] OTHER -> Other

----------------------------------------------------------------------------
(* Value state machine *)

VALUE_PARSE_WHITESPACE == 1
VALUE_PARSE_QUOTED == 2
VALUE_PARSE_QUOTED_BACKSLASH == 3
VALUE_PARSE_QUOTED_TERMINATED == 4
VALUE_PARSE_UNQUOTED == 9
VALUE_PARSE_ERROR == 10

\* One iteration of the loop of valueStringState: the state after `token`
\* is seen in state `s` (VALUE_PARSE_ERROR stands for the early return).
valueStep_EscapeAnything(s, token) ==
    CASE s = VALUE_PARSE_WHITESPACE ->
            IF convertToken(token) = Whitespace THEN s
            ELSE IF convertToken(token) = Quote THEN VALUE_PARSE_QUOTED
            ELSE IF token \in validValueByteSetUnquoted THEN VALUE_PARSE_UNQUOTED
            ELSE VALUE_PARSE_ERROR
      [] s = VALUE_PARSE_QUOTED ->
            IF token = B_BACKSLASH THEN VALUE_PARSE_QUOTED_BACKSLASH
            ELSE IF token = B_QUOTE THEN VALUE_PARSE_QUOTED_TERMINATED
            ELSE IF token \in invalidValueByteSetQuoted THEN VALUE_PARSE_ERROR
            ELSE s
      [] s = VALUE_PARSE_QUOTED_TERMINATED ->
            IF convertToken(token) # Whitespace THEN VALUE_PARSE_ERROR ELSE s
      [] s = VALUE_PARSE_QUOTED_BACKSLASH -> VALUE_PARSE_QUOTED
      [] s = VALUE_PARSE_UNQUOTED ->
            IF token \in invalidValueByteSetUnquoted THEN VALUE_PARSE_ERROR ELSE s
      [] OTHER -> VALUE_PARSE_ERROR

valueStep(s, token) ==
    CASE s = VALUE_PARSE_WHITESPACE ->
            IF convertToken(token) = Whitespace THEN s
            ELSE IF convertToken(token) = Quote THEN VALUE_PARSE_QUOTED
            ELSE IF token \in validValueByteSetUnquoted THEN VALUE_PARSE_UNQUOTED
            ELSE VALUE_PARSE_ERROR
      [] s = VALUE_PARSE_QUOTED ->
            IF token = B_BACKSLASH THEN VALUE_PARSE_QUOTED_BACKSLASH
            ELSE IF token = B_QUOTE THEN VALUE_PARSE_QUOTED_TERMINATED
            ELSE IF token \in invalidValueByteSetQuoted THEN VALUE_PARSE_ERROR
            ELSE s
      [] s = VALUE_PARSE_QUOTED_TERMINATED ->
            IF convertToken(token) # Whitespace THEN VALUE_PARSE_ERROR ELSE s
      [] s = VALUE_PARSE_QUOTED_BACKSLASH ->
            IF token \in invalidValueByteSetQuoted THEN VALUE_PARSE_ERROR
            ELSE VALUE_PARSE_QUOTED
      [] s = VALUE_PARSE_UNQUOTED ->
            IF token \in invalidValueByteSetUnquoted THEN VALUE_PARSE_ERROR ELSE s
      [] OTHER -> VALUE_PARSE_ERROR

RECURSIVE valueScan(_, _, _)
\* The loop of valueStringState from index i on, entered in state s; the
\* early `return VALUE_PARSE_ERROR` leaves the loop at once.
valueScan(bytes, i, s) ==
    IF i > Len(bytes) THEN s
    ELSE IF valueStep(s, bytes[i]) = VALUE_PARSE_ERROR THEN VALUE_PARSE_ERROR
    ELSE valueScan(bytes, i + 1, valueStep(s, bytes[i]))

valueStringState(bytes) == valueScan(bytes, 1, VALUE_PARSE_WHITESPACE)

isKeyByte_Any(input) == TRUE

isKeyByte(input) == input \in validKeyByteSet

inQuotedString_Always(bytes) == TRUE

inQuotedString_Never(bytes) == FALSE

inQuotedString(bytes) ==
    valueStringState(bytes) \in {VALUE_PARSE_QUOTED, VALUE_PARSE_QUOTED_BACKSLASH}

isClosedQuotedString_Never(bytes) == FALSE

isClosedQuotedString(bytes) ==
    valueStringState(bytes) = VALUE_PARSE_QUOTED_TERMINATED

isExtraQuoteLegal_UnlessClosed(bytes) ==
    valueStringState(bytes) # VALUE_PARSE_QUOTED_TERMINATED

isExtraQuoteLegal_Always(bytes) == TRUE

isExtraQuoteLegal(bytes) ==
    /\ valueStringState(bytes) # VALUE_PARSE_QUOTED_TERMINATED
    /\ valueStringState(bytes) # VALUE_PARSE_UNQUOTED
    /\ valueStringState(bytes) # VALUE_PARSE_ERROR

----------------------------------------------------------------------------
(* Heap objects: nodes and lines *)

Nil == 0            \* the nil pointer (of a node, of a line, of the IniFile)
NoReader == -1      \* LineBase.reader == nil
NoErr == <<>>       \* the nil error
EOF == <<"EOF">>    \* io.EOF

WhitespaceNode(c) == [kind |-> "WhitespaceNode", symbol |-> 0, content |-> c]
CommentNode_AsWhitespace(sym) ==
    [kind |-> "WhitespaceNode", symbol |-> sym, content |-> <<>>]

CommentNode_NoSymbol(sym) == [kind |-> "CommentNode", symbol |-> 0, content |-> <<>>]
CommentNode(sym) == [kind |-> "CommentNode", symbol |-> sym, content |-> <<>>]
HeaderNode_WithBracket == [kind |-> "HeaderNode", symbol |-> 0, content |-> <<91>>]
HeaderNode == [kind |-> "HeaderNode", symbol |-> 0, content |-> <<>>]
KeyNode(c) == [kind |-> "KeyNode", symbol |-> 0, content |-> c]
ValueNode_WithEquals == [kind |-> "ValueNode", symbol |-> 0, content |-> <<61>>]
ValueNode == [kind |-> "ValueNode", symbol |-> 0, content |-> <<>>]

\* A line object with every pointer nil; LineBase is embedded (ReadBuf,
\* reader, prev, next).
LineBase(type) ==
    [type |-> type, Padding |-> Nil, Comment |-> Nil, Header |-> Nil,
     PostPad |-> Nil, Key |-> Nil, PostKeyPad |-> Nil, Value |-> Nil,
     next |-> Nil, prev |-> Nil, ReadBuf |-> <<>>, reader |-> NoReader]

EmptyLine(padding) == [LineBase("EmptyLine") EXCEPT !.Padding = padding]

SectionHeaderLine(padding, header) ==
    [LineBase("SectionHeaderLine") EXCEPT !.Padding = padding, !.Header = header]

KeyValueLine(padding, key) ==
    [LineBase("KeyValueLine") EXCEPT !.Padding = padding, !.Key = key]

----------------------------------------------------------------------------
(* Error texts: sequences of string pieces, as fmt builds them *)

Digits == <<"0", "1", "2", "3", "4", "5", "6", "7", "8", "9">>
HexDigits == <<"0", "1", "2", "3", "4", "5", "6", "7", "8", "9",
               "a", "b", "c", "d", "e", "f">>

RECURSIVE Dec(_)
\* %v of a non-negative int
Dec(n) == IF n < 10 THEN <<Digits[n + 1]>>
          ELSE Dec(n \div 10) \o <<Digits[(n % 10) + 1]>>

Hex2_Upper(b) ==
    LET upper == <<"0", "1", "2", "3", "4", "5", "6", "7", "8", "9",
                   "A", "B", "C", "D", "E", "F">>
    IN <<upper[(b \div 16) + 1], upper[(b % 16) + 1]>>

\* %02x of a byte
Hex2(b) == <<HexDigits[(b \div 16) + 1], HexDigits[(b % 16) + 1]>>

Err_OneBased(p, text) ==
    text \o <<" (line:">> \o Dec(p.lineNo + 1) \o <<", col:">> \o Dec(p.colNo + 1)
         \o <<")">>

Err_ColumnFirst(p, text) ==
    text \o <<" (line:">> \o Dec(p.colNo) \o <<", col:">> \o Dec(p.lineNo) \o <<")">>

\* iniParser.Err: "%s (line:%v, col:%v)"
Err(p, text) ==
    text \o <<" (line:">> \o Dec(p.lineNo) \o <<", col:">> \o Dec(p.colNo) \o <<")">>

----------------------------------------------------------------------------
(* The streaming parser.  The handlers work on st = [p, f, lines, nodes]   *)
(* (parser fields, IniFile fields, the two heaps) and return [st, err].    *)

Ok(st) == [st |-> st, err |-> NoErr]
Fail_Swallowed(st, text) == [st |-> st, err |-> NoErr]
Fail(st, text) == [st |-> st, err |-> Err(st.p, text)]

\* node.content = append(node.content, p.currentByte)
Grow_IntoFirstNode(st, node) ==
    [st EXCEPT !.nodes[1].content = Append(@, st.p.currentByte)]

Grow(st, node) ==
    [st EXCEPT !.nodes[node].content = Append(@, st.p.currentByte)]

parseEmptyLine(st, line) ==
    LET node == st.p.currentNode
        b == st.p.currentByte
        tok == st.p.tokenType
        newNode == Len(st.nodes) + 1
        newLine == Len(st.lines) + 1
    IN
    CASE st.nodes[node].kind = "WhitespaceNode" ->
            CASE tok = Whitespace -> Ok(Grow(st, node))
              [] tok = CommentStart ->
                    Ok([st EXCEPT !.lines[line].Padding = node,
                                  !.nodes = Append(@, CommentNode(b)),
                                  !.lines[line].Comment = newNode,
                                  !.p.currentNode = newNode])
              [] tok = SectionStart ->
                    Ok([st EXCEPT !.nodes = Append(@, HeaderNode),
                                  !.lines = Append(@, SectionHeaderLine(node, newNode)),
                                  !.p.currentNode = newNode,
                                  !.p.currentLine = newLine])
              [] OTHER ->
                    IF isKeyByte(b)
                    THEN Ok([st EXCEPT !.nodes = Append(@, KeyNode(<<b>>)),
                                       !.lines = Append(@, KeyValueLine(node, newNode)),
                                       !.p.currentLine = newLine,
                                       !.p.currentNode = newNode])
                    ELSE Fail(st, <<"invalid character ">> \o Hex2(b)
                                      \o <<" for empty line">>)
      [] st.nodes[node].kind = "CommentNode" -> Ok(Grow(st, node))
      [] OTHER -> Ok(st)

parseKeyValueLine(st, line) ==
    LET node == st.p.currentNode
        b == st.p.currentByte
        tok == st.p.tokenType
        newNode == Len(st.nodes) + 1
        toValue == [st EXCEPT !.nodes = Append(@, ValueNode),
                              !.lines[line].Value = newNode,
                              !.p.currentNode = newNode]
        toComment == [st EXCEPT !.nodes = Append(@, CommentNode(b)),
                                !.lines[line].Comment = newNode,
                                !.p.currentNode = newNode]
    IN
    CASE st.nodes[node].kind = "KeyNode" ->
            IF tok = Equals THEN Ok(toValue)
            ELSE IF tok = Whitespace
            THEN Ok([st EXCEPT !.nodes = Append(@, WhitespaceNode(<<b>>)),
                               !.lines[line].PostKeyPad = newNode,
                               !.p.currentNode = newNode])
            ELSE IF isKeyByte(b) THEN Ok(Grow(st, node))
            ELSE Fail(st, <<"invalid character ">> \o Hex2(b) \o <<" in key">>)
      [] st.nodes[node].kind = "WhitespaceNode" ->
            IF tok = Equals THEN Ok(toValue)
            ELSE IF tok = Whitespace THEN Ok(Grow(st, node))
            ELSE Fail(st, <<"invalid non-whitespace character ">> \o Hex2(b)
                              \o <<" in key">>)
      [] st.nodes[node].kind = "ValueNode" ->
            IF tok = CommentStart
            THEN IF inQuotedString(st.nodes[node].content)
                 THEN Ok(Grow(st, node))
                 ELSE Ok(toComment)
            ELSE IF tok = Quote
            THEN IF isExtraQuoteLegal(st.nodes[node].content)
                 THEN Ok(Grow(st, node))
                 ELSE Fail(st, <<"illegal quote character in value">>)
            ELSE IF tok = Whitespace THEN Ok(Grow(st, node))
            ELSE IF b # B_NULL
            THEN IF isClosedQuotedString(st.nodes[node].content)
                 THEN Fail(st, <<"illegal character ">> \o Hex2(b)
                                   \o <<" after terminated quoted value">>)
                 ELSE Ok(Grow(st, node))
            ELSE Fail(st, <<"illegal character ">> \o Hex2(b) \o <<" in value">>)
      [] st.nodes[node].kind = "CommentNode" -> Ok(Grow(st, node))
      [] OTHER -> Ok(st)

parseSectionHeaderLine(st, line) ==
    LET node == st.p.currentNode
        b == st.p.currentByte
        tok == st.p.tokenType
        newNode == Len(st.nodes) + 1
    IN
    CASE st.nodes[node].kind = "CommentNode" -> Ok(Grow(st, node))
      [] st.nodes[node].kind = "HeaderNode" ->
            CASE tok = SectionEnd ->
                    Ok([st EXCEPT !.nodes = Append(@, WhitespaceNode(<<>>)),
                                  !.lines[line].PostPad = newNode,
                                  !.p.currentNode = newNode])
              [] tok = CommentStart ->
                    Fail(st, <<"illegal comment start in bracket">>)
              [] OTHER -> Ok(Grow(st, node))
      [] st.nodes[node].kind = "WhitespaceNode" ->
            CASE tok = CommentStart ->
                    Ok([st EXCEPT !.nodes = Append(@, CommentNode(b)),
                                  !.lines[line].Comment = newNode,
                                  !.p.currentNode = newNode])
              [] tok = Whitespace -> Ok(Grow(st, node))
              [] OTHER ->
                    Fail(st, <<"illegal non-comment character ">> \o Hex2(b)
                                 \o <<" after closed section header">>)
      [] OTHER -> Ok(st)

advanceLine_KeepColumn(st) ==
    LET cur == st.p.currentLine
        before == st.p.previousLine
        linked == IF before # Nil
                  THEN [st EXCEPT !.lines[before].next = cur,
                                  !.lines[cur].prev = before]
                  ELSE [st EXCEPT !.f.Head = cur]
    IN [linked EXCEPT !.p.previousLine = cur,
                      !.lines = Append(@, EmptyLine(Nil)),
                      !.p.currentLine = Len(linked.lines) + 1,
                      !.nodes = Append(@, WhitespaceNode(<<>>)),
                      !.p.currentNode = Len(linked.nodes) + 1,
                      !.p.lineNo = @ + 1]

advanceLine_NoSetPrev(st) ==
    LET cur == st.p.currentLine
        before == st.p.previousLine
        linked == IF before # Nil
                  THEN [st EXCEPT !.lines[before].next = cur]
                  ELSE [st EXCEPT !.f.Head = cur]
    IN [linked EXCEPT !.p.previousLine = cur,
                      !.lines = Append(@, EmptyLine(Nil)),
                      !.p.currentLine = Len(linked.lines) + 1,
                      !.nodes = Append(@, WhitespaceNode(<<>>)),
                      !.p.currentNode = Len(linked.nodes) + 1,
                      !.p.lineNo = @ + 1,
                      !.p.colNo = 0]

advanceLine(st) ==
    LET cur == st.p.currentLine
        before == st.p.previousLine
        linked == IF before # Nil
                  THEN [st EXCEPT !.lines[before].next = cur,
                                  !.lines[cur].prev = before]
                  ELSE [st EXCEPT !.f.Head = cur]
    IN [linked EXCEPT !.p.previousLine = cur,
                      !.lines = Append(@, EmptyLine(Nil)),
                      !.p.currentLine = Len(linked.lines) + 1,
                      !.nodes = Append(@, WhitespaceNode(<<>>)),
                      !.p.currentNode = Len(linked.nodes) + 1,
                      !.p.lineNo = @ + 1,
                      !.p.colNo = 0]

\* The body of the loop of parse once the source has delivered byte b:
\* classify, then finish the line or dispatch on the type of currentLine.
\* A handler's error leaves the loop before the column is tracked.
parseByte_NewLineDispatched(st0, b) ==
    LET st == [st0 EXCEPT !.p.currentByte = b, !.p.tokenType = convertToken(b)]
        line == st.p.currentLine
        r == CASE st.lines[line].type = "EmptyLine" -> parseEmptyLine(st, line)
               [] st.lines[line].type = "KeyValueLine" -> parseKeyValueLine(st, line)
               [] st.lines[line].type = "SectionHeaderLine" ->
                      parseSectionHeaderLine(st, line)
    IN IF r.err # NoErr THEN r
       ELSE IF st.p.tokenType = NewLine THEN Ok(advanceLine(r.st))
       ELSE Ok([r.st EXCEPT !.p.colNo = @ + 1])

parseByte(st0, b) ==
    LET st == [st0 EXCEPT !.p.currentByte = b, !.p.tokenType = convertToken(b)]
        line == st.p.currentLine
        r == CASE st.lines[line].type = "EmptyLine" -> parseEmptyLine(st, line)
               [] st.lines[line].type = "KeyValueLine" -> parseKeyValueLine(st, line)
               [] st.lines[line].type = "SectionHeaderLine" ->
                      parseSectionHeaderLine(st, line)
    IN IF st.p.tokenType = NewLine THEN Ok(advanceLine(st))
       ELSE IF r.err # NoErr THEN r
       ELSE Ok([r.st EXCEPT !.p.colNo = @ + 1])

----------------------------------------------------------------------------
(* The streaming serializer *)

Min(a, b) == IF a < b THEN a ELSE b

\* What the Read of a line type appends to ReadBuf, in order: node
\* pointers (their content is appended) and literal bytes.
ReadItems(l) ==
    CASE l.type = "EmptyLine" ->
            <<[node |-> l.Padding], [node |-> l.Comment]>>
      [] l.type = "SectionHeaderLine" ->
            <<[node |-> l.Padding], [node |-> l.Header], [node |-> l.PostPad],
              [node |-> l.Comment]>>
      [] l.type = "KeyValueLine" ->
            <<[node |-> l.Padding], [node |-> l.Key], [node |-> l.PostKeyPad],
              [byte |-> B_EQUALS], [node |-> l.Value], [node |-> l.Comment]>>

RECURSIVE Populate(_, _, _, _)
\* The appends of EmptyLine.Read / SectionHeaderLine.Read / KeyValueLine.Read
\* from item i on; reading the content of a nil node panics, with the
\* earlier appends already made.
Populate(ns, items, i, readBuf) ==
    IF i > Len(items) THEN [ReadBuf |-> readBuf, panic |-> FALSE]
    ELSE IF "byte" \in DOMAIN items[i]
    THEN Populate(ns, items, i + 1, Append(readBuf, items[i].byte))
    ELSE IF items[i].node = Nil THEN [ReadBuf |-> readBuf, panic |-> TRUE]
    ELSE Populate(ns, items, i + 1, readBuf \o ns[items[i].node].content)

ReaderRead_Skip(readBuf, pos, k) ==
    IF pos >= Len(readBuf) THEN [data |-> <<>>, pos |-> pos, err |-> EOF]
    ELSE LET n == IF k < Len(readBuf) - pos THEN k ELSE Len(readBuf) - pos
         IN [data |-> SubSeq(readBuf, pos + 1, pos + n), pos |-> pos + n + 1,
             err |-> NoErr]

\* bytes.Reader.Read on the reader at position pos over readBuf, for a
\* destination of k > 0 bytes.
ReaderRead(readBuf, pos, k) ==
    IF pos >= Len(readBuf) THEN [data |-> <<>>, pos |-> pos, err |-> EOF]
    ELSE LET n == Min(k, Len(readBuf) - pos)
         IN [data |-> SubSeq(readBuf, pos + 1, pos + n), pos |-> pos + n,
             err |-> NoErr]

\* <Line>.Read(p) with len(p) = k, followed by LineBase.Read.
LineRead(ns, l, k) ==
    LET filled == IF l.reader = NoReader
                  THEN Populate(ns, ReadItems(l), 1, l.ReadBuf)
                  ELSE [ReadBuf |-> l.ReadBuf, panic |-> FALSE]
        pos == IF l.reader = NoReader THEN 0 ELSE l.reader
        r == ReaderRead(filled.ReadBuf, pos, k)
    IN IF filled.panic
       THEN [line |-> [l EXCEPT !.ReadBuf = filled.ReadBuf], data |-> <<>>,
             err |-> NoErr, panic |-> TRUE]
       ELSE [line |-> [l EXCEPT !.ReadBuf = filled.ReadBuf, !.reader = r.pos],
             data |-> r.data, err |-> r.err, panic |-> FALSE]

RECURSIVE ReadLoop(_, _, _, _, _)
\* The for loop of IniFile.Read over a destination of len(dst) = k bytes:
\* f and ls are the IniFile fields and the line heap so far, written the
\* bytes copied to dst so far.  Yields the fields, the heap, the bytes
\* written and the error returned, or the panic of a line's Read.
ReadLoop(ns, f, ls, k, written) ==
    IF Len(written) < k /\ f.readLine # Nil
    THEN LET r == LineRead(ns, ls[f.readLine], k - Len(written))
             ls2 == [ls EXCEPT ![f.readLine] = r.line]
             total == written \o r.data
         IN IF r.panic
            THEN [f |-> f, lines |-> ls2, data |-> written, err |-> NoErr,
                  panic |-> TRUE]
            ELSE IF r.err = EOF
            THEN IF f.readLine = f.Tail
                 THEN [f |-> [f EXCEPT !.readLine = Nil, !.done = TRUE],
                       lines |-> ls2, data |-> total,
                       err |-> IF Len(total) = 0 THEN EOF ELSE NoErr,
                       panic |-> FALSE]
                 ELSE ReadLoop(ns, [f EXCEPT !.readLine = ls[f.readLine].next],
                               ls2, k, total)
            ELSE [f |-> f, lines |-> ls2, data |-> total, err |-> NoErr,
                  panic |-> FALSE]
    ELSE [f |-> f, lines |-> ls, data |-> written, err |-> NoErr, panic |-> FALSE]

FileRead_NoEOF(ns, f0, ls, k) ==
    LET f == IF f0.readLine = Nil /\ ~f0.done
             THEN [f0 EXCEPT !.readLine = f0.Head] ELSE f0
    IN IF f.readLine = Nil
       THEN [f |-> f, lines |-> ls, data |-> <<>>, err |-> NoErr, panic |-> FALSE]
       ELSE ReadLoop(ns, f, ls, k, <<>>)

\* IniFile.Read(dst) with len(dst) = k.
FileRead(ns, f0, ls, k) ==
    LET f == IF f0.readLine = Nil /\ ~f0.done
             THEN [f0 EXCEPT !.readLine = f0.Head] ELSE f0
    IN IF f.readLine = Nil
       THEN [f |-> f, lines |-> ls, data |-> <<>>, err |-> EOF, panic |-> FALSE]
       ELSE ReadLoop(ns, f, ls, k, <<>>)

RECURSIVE Chain(_, _, _)
\* The lines visited by `for line := from; line != nil; line = line.Next()`,
\* in order (fuel bounds the walk by the size of the heap).
Chain(ls, from, fuel) ==
    IF from = Nil \/ fuel = 0 THEN <<>>
    ELSE <<from>> \o Chain(ls, ls[from].next, fuel - 1)

FromHead(f, ls) == Chain(ls, f.Head, Len(ls))

Range(s) == {s[i] : i \in DOMAIN s}

LineReset_Unlink(l) ==
    [l EXCEPT !.ReadBuf = <<>>, !.reader = NoReader, !.next = Nil]

LineReset_KeepReader(l) == l

\* LineBase.Reset
LineReset(l) == [l EXCEPT !.ReadBuf = <<>>, !.reader = NoReader]

\* The loop of IniFile.Reset over the lines reachable from Head.
ResetLines(f, ls) ==
    [i \in DOMAIN ls |-> IF i \in Range(FromHead(f, ls)) THEN LineReset(ls[i])
                         ELSE ls[i]]

\* Every line reachable from Head has been populated and read to its end.
PassComplete ==
    \A i \in Range(FromHead(file, lines)) :
        lines[i].reader # NoReader /\ lines[i].reader = Len(lines[i].ReadBuf)

----------------------------------------------------------------------------
(* Terminated *)

\* EmptyLine.Terminated
EmptyLineTerminated(ns, l) == TRUE

SectionHeaderLineTerminated_HeaderSeen(ns, l) == l.Header # Nil

\* SectionHeaderLine.Terminated
SectionHeaderLineTerminated(ns, l) == l.PostPad # Nil

KeyValueLineTerminated_AnyValue(ns, l) == l.Value # Nil

\* KeyValueLine.Terminated
KeyValueLineTerminated(ns, l) ==
    IF l.Value = Nil THEN FALSE
    ELSE valueStringState(ns[l.Value].content)
            \in {VALUE_PARSE_WHITESPACE, VALUE_PARSE_QUOTED_TERMINATED,
                 VALUE_PARSE_UNQUOTED}

\* IniLine.Terminated, dispatched on the type of the line
Terminated(ns, l) ==
    CASE l.type = "EmptyLine" -> EmptyLineTerminated(ns, l)
      [] l.type = "SectionHeaderLine" -> SectionHeaderLineTerminated(ns, l)
      [] l.type = "KeyValueLine" -> KeyValueLineTerminated(ns, l)

----------------------------------------------------------------------------
(* Parse and the serialization of the IniFile it returns *)

TheFile == 1        \* the pointer to the one IniFile that Parse allocates

NoCalls == <<>>     \* no concurrent invocations: one caller, one Parse

IsPrefix(a, b) == Len(a) <= Len(b) /\ SubSeq(b, 1, Len(a)) = a

\* Longer inputs the byte source may also deliver, beyond every input of at
\* most MaxLen bytes: lines with all their optional parts.
Seeds ==
    { <<32, 91, 97, 93, 32, 35, 97, 10>>,                       \* " [a] #a\n"
      <<32, 97, 32, 61, 97, 10>>,                               \* " a =a\n"
      <<97, 32, 61, 34, 35, 92, 34, 97, 34, 59, 97, 10>>,       \* a ="#\"a";a\n
      <<97, 61, 34, 92, 10>>,                                   \* a="\ \n
      <<32, 59, 35, 91, 93, 34, 61, 97, 10>>,                   \* " ;#[]"=a\n"
      <<97, 10, 91, 97, 93, 10, 35, 97, 10>>,                   \* a\n[a]\n#a\n
      <<97, 61, 34, 92, 0>>,                                    \* a="\ and null
      <<35, 97, 97, 10, 35, 97, 10>> }                          \* #aa\n#a\n
    \cup { <<97, 61, 34, 34, b>> : b \in Alphabet }             \* a="" and a byte

St == [p |-> parser, f |-> file, lines |-> lines, nodes |-> nodes]

\* The error with which the byte source fails, when it is not io.EOF.
SourceErr == <<"source error">>

ReadInputErr_Opaque(err) == <<"failed to read input">>

\* fmt.Errorf("failed to read input: %w", err)
ReadInputErr(err) == <<"failed to read input: ">> \o err

ReturnErr_KeepFile(err) == [file |-> TheFile, err |-> err]

\* `return nil, err` of parse
ReturnErr(err) == [file |-> Nil, err |-> err]

\* `return p.file, nil` of parse
ReturnFile == [file |-> TheFile, err |-> NoErr]

\* Parse has built the parser and parse has set up the first line: an
\* EmptyLine whose Padding is the active, empty whitespace node.
Init ==
    /\ pc = "parsing"
    /\ consumed = <<>>
    /\ buf = <<0>>
    /\ parser = [lineNo |-> 0, colNo |-> 0, currentNode |-> 1, currentLine |-> 1,
                 previousLine |-> Nil, tokenType |-> 0, currentByte |-> 0]
    /\ file = [Head |-> Nil, Tail |-> Nil, readLine |-> Nil, done |-> FALSE]
    /\ lines = <<EmptyLine(1)>>
    /\ nodes = <<WhitespaceNode(<<>>)>>
    /\ ret = [file |-> Nil, err |-> NoErr]
    /\ rd = [n |-> 0, err |-> NoErr]
    /\ out = <<>>
    /\ prev = <<>>
    /\ prevDone = FALSE
    /\ resets = 0
    /\ tokens = <<>>
    /\ content = <<>>
    /\ state = 0
    /\ calls = NoCalls

\* One pass of the loop of parse in which the source delivers byte b.
SourceByte(b) ==
    /\ pc = "parsing"
    /\ \/ Len(consumed) < MaxLen
       \/ \E seed \in Seeds : IsPrefix(Append(consumed, b), seed)
    /\ LET r == parseByte(St, b)
       IN /\ parser' = r.st.p
          /\ file' = r.st.f
          /\ lines' = r.st.lines
          /\ nodes' = r.st.nodes
          /\ IF r.err # NoErr
             THEN pc' = "failed" /\ ret' = ReturnErr(r.err)
             ELSE UNCHANGED <<pc, ret>>
    /\ consumed' = Append(consumed, b)
    /\ buf' = <<b>>
    /\ UNCHANGED <<rd, out, prev, prevDone, resets, tokens, content, state>>
    /\ UNCHANGED calls

\* The source reports io.EOF: parse leaves the loop, sets Tail and returns
\* the file.
SourceEOF ==
    /\ pc = "parsing"
    /\ file' = [file EXCEPT !.Tail = parser.currentLine]
    /\ pc' = "parsed"
    /\ ret' = ReturnFile
    /\ UNCHANGED <<consumed, buf, parser, lines, nodes, rd, out, prev, prevDone,
                   resets, tokens, content, state>>
    /\ UNCHANGED calls

\* The source fails with another error: parse wraps and returns it.
SourceError ==
    /\ pc = "parsing"
    /\ pc' = "failed"
    /\ ret' = ReturnErr(ReadInputErr(SourceErr))
    /\ UNCHANGED <<consumed, buf, parser, file, lines, nodes, rd, out, prev,
                   prevDone, resets, tokens, content, state>>
    /\ UNCHANGED calls

\* The caller calls IniFile.Read with a destination of k bytes.
Read(k) ==
    /\ pc = "parsed"
    /\ LET r == FileRead(nodes, file, lines, k)
       IN /\ file' = r.f
          /\ lines' = r.lines
          /\ IF r.panic
             THEN pc' = "panic" /\ UNCHANGED <<rd, out>>
             ELSE /\ rd' = [n |-> Len(r.data), err |-> r.err]
                  /\ out' = out \o r.data
                  /\ UNCHANGED pc
    /\ UNCHANGED <<consumed, buf, parser, nodes, ret, prev, prevDone, resets,
                   tokens, content, state>>
    /\ UNCHANGED calls

\* The caller calls IniFile.Reset.
Reset ==
    /\ pc = "parsed"
    /\ resets < MaxResets
    /\ lines' = ResetLines(file, lines)
    /\ file' = [file EXCEPT !.readLine = Nil, !.done = FALSE]
    /\ prev' = out
    /\ prevDone' = PassComplete
    /\ out' = <<>>
    /\ resets' = resets + 1
    /\ UNCHANGED <<pc, consumed, buf, parser, nodes, ret, rd, tokens, content, state>>
    /\ UNCHANGED calls

Next ==
    \/ \E b \in Alphabet : SourceByte(b)
    \/ SourceEOF
    \/ SourceError
    \/ \E k \in 1..MaxBuf : Read(k)
    \/ Reset

Spec == Init /\ [][Next]_vars

\* A caller that parses and then only reads, again and again.
NextRead ==
    \/ \E b \in Alphabet : SourceByte(b)
    \/ SourceEOF
    \/ SourceError
    \/ \E k \in 1..MaxBuf : Read(k)

SpecRead == Init /\ [][NextRead]_vars /\ WF_vars(\E k \in 1..MaxBuf : Read(k))

\* The byte sources above deliver one byte per read and report io.EOF with
\* no byte, as bytes.Reader and strings.Reader do.  An io.Reader may also
\* return (0, nil), and may return its last byte together with io.EOF.

\* p.input.Read(buf) returns (0, nil): buf keeps the byte of the read before
\* (zero before the first byte), and parse, which drops the count, goes on
\* with buf[0].  The guards bound the number of such reads by the
\* position counters.
SourceNothing ==
    /\ pc = "parsing"
    /\ Len(consumed) < MaxLen
    /\ parser.lineNo + parser.colNo <= Len(consumed)
    /\ LET r == parseByte(St, buf[1])
       IN /\ parser' = r.st.p
          /\ file' = r.st.f
          /\ lines' = r.st.lines
          /\ nodes' = r.st.nodes
          /\ IF r.err # NoErr
             THEN pc' = "failed" /\ ret' = ReturnErr(r.err)
             ELSE UNCHANGED <<pc, ret>>
    /\ UNCHANGED <<consumed, buf, rd, out, prev, prevDone, resets, tokens,
                   content, state>>
    /\ UNCHANGED calls

\* p.input.Read(buf) returns (1, io.EOF) with byte b in buf: parse tests the
\* error first and leaves the loop.
SourceByteEOF(b) ==
    /\ pc = "parsing"
    /\ Len(consumed) < MaxLen
    /\ consumed' = Append(consumed, b)
    /\ buf' = <<b>>
    /\ file' = [file EXCEPT !.Tail = parser.currentLine]
    /\ pc' = "parsed"
    /\ ret' = ReturnFile
    /\ UNCHANGED <<parser, lines, nodes, rd, out, prev, prevDone, resets,
                   tokens, content, state>>
    /\ UNCHANGED calls

\* Parse over a byte source with every behaviour of an io.Reader.
NextSource ==
    \/ \E b \in Alphabet : SourceByte(b)
    \/ SourceEOF
    \/ SourceError
    \/ SourceNothing
    \/ \E b \in Alphabet : SourceByteEOF(b)

SpecSource == Init /\ [][NextSource]_vars

----------------------------------------------------------------------------
(* Tokenize *)

InitTokenize ==
    /\ pc = "tokenizing"
    /\ consumed = <<>>
    /\ buf = <<0>>
    /\ parser = [lineNo |-> 0, colNo |-> 0, currentNode |-> Nil,
                 currentLine |-> Nil, previousLine |-> Nil, tokenType |-> 0,
                 currentByte |-> 0]
    /\ file = [Head |-> Nil, Tail |-> Nil, readLine |-> Nil, done |-> FALSE]
    /\ lines = <<>>
    /\ nodes = <<>>
    /\ ret = [file |-> Nil, err |-> NoErr]
    /\ rd = [n |-> 0, err |-> NoErr]
    /\ out = <<>>
    /\ prev = <<>>
    /\ prevDone = FALSE
    /\ resets = 0
    /\ tokens = <<>>
    /\ content = <<>>
    /\ state = 0
    /\ calls = NoCalls

Token(b) == [Content |-> b, Kind |-> convertToken(b)]

\* One pass of the loop of Tokenize in which the source delivers byte b.
TokenizeByte(b) ==
    /\ pc = "tokenizing"
    /\ Len(tokens) < MaxTokens
    /\ buf' = <<b>>
    /\ consumed' = Append(consumed, b)
    /\ tokens' = Append(tokens, Token(b))
    /\ UNCHANGED <<pc, parser, file, lines, nodes, ret, rd, out, prev, prevDone,
                   resets, content, state>>
    /\ UNCHANGED calls

\* The source reports io.EOF: Tokenize returns the tokens.
TokenizeEOF ==
    /\ pc = "tokenizing"
    /\ pc' = "tokenized"
    /\ UNCHANGED <<consumed, buf, parser, file, lines, nodes, ret, rd, out, prev,
                   prevDone, resets, tokens, content, state>>
    /\ UNCHANGED calls

\* The source fails: Tokenize returns nil and the wrapped error.
TokenizeError ==
    /\ pc = "tokenizing"
    /\ pc' = "failed"
    /\ tokens' = <<>>
    /\ ret' = ReturnErr(ReadInputErr(SourceErr))
    /\ UNCHANGED <<consumed, buf, parser, file, lines, nodes, rd, out, prev,
                   prevDone, resets, content, state>>
    /\ UNCHANGED calls

NextTokenize ==
    \/ \E b \in Byte : TokenizeByte(b)
    \/ TokenizeEOF
    \/ TokenizeError

SpecTokenize == InitTokenize /\ [][NextTokenize]_vars

----------------------------------------------------------------------------
(* valueStringState on its own *)

ByteStrings(alphabet, n) == UNION {[1..k -> alphabet] : k \in 0..n}

InitValue ==
    /\ pc = "value"
    /\ content \in ByteStrings(ValueAlphabet, MaxValLen)
    /\ state = 0
    /\ consumed = <<>>
    /\ buf = <<0>>
    /\ parser = [lineNo |-> 0, colNo |-> 0, currentNode |-> Nil,
                 currentLine |-> Nil, previousLine |-> Nil, tokenType |-> 0,
                 currentByte |-> 0]
    /\ file = [Head |-> Nil, Tail |-> Nil, readLine |-> Nil, done |-> FALSE]
    /\ lines = <<>>
    /\ nodes = <<>>
    /\ ret = [file |-> Nil, err |-> NoErr]
    /\ rd = [n |-> 0, err |-> NoErr]
    /\ out = <<>>
    /\ prev = <<>>
    /\ prevDone = FALSE
    /\ resets = 0
    /\ tokens = <<>>
    /\ calls = NoCalls

\* The caller evaluates valueStringState(content).
ValueState ==
    /\ pc = "value"
    /\ state' = valueStringState(content)
    /\ pc' = "valued"
    /\ UNCHANGED <<consumed, buf, parser, file, lines, nodes, ret, rd, out, prev,
                   prevDone, resets, tokens, content>>
    /\ UNCHANGED calls

NextValue == ValueState

SpecValue == InitValue /\ [][NextValue]_vars

----------------------------------------------------------------------------
(* Properties *)

RECURSIVE Segments(_)
\* The input cut at every NewLine byte: the newline-terminated segments in
\* order, then the (possibly empty) rest after the last NewLine.
Segments(s) ==
    IF \A i \in DOMAIN s : s[i] # 10 THEN <<s>>
    ELSE LET i == CHOOSE j \in DOMAIN s : s[j] = 10 /\ \A h \in 1..(j - 1) : s[h] # 10
         IN <<SubSeq(s, 1, i - 1)>> \o Segments(SubSeq(s, i + 1, Len(s)))

ContentOf(n) == IF n = Nil THEN <<>> ELSE nodes[n].content

CommentBytes(l) ==
    IF l.Comment = Nil THEN <<>>
    ELSE <<nodes[l.Comment].symbol>> \o nodes[l.Comment].content

\* The bytes a line stands for: its nodes with the delimiters of the grammar
\* put back, an absent node standing for no bytes.
StoredBytes(l) ==
    CASE l.type = "EmptyLine" -> ContentOf(l.Padding) \o CommentBytes(l)
      [] l.type = "SectionHeaderLine" ->
            ContentOf(l.Padding) \o <<91>> \o ContentOf(l.Header)
            \o (IF l.PostPad # Nil THEN <<93>> \o ContentOf(l.PostPad) ELSE <<>>)
            \o CommentBytes(l)
      [] l.type = "KeyValueLine" ->
            ContentOf(l.Padding) \o ContentOf(l.Key) \o ContentOf(l.PostKeyPad)
            \o (IF l.Value # Nil THEN <<61>> \o ContentOf(l.Value) ELSE <<>>)
            \o CommentBytes(l)

GrammarError == pc = "failed" /\ ret.err[1] # "failed to read input: "

\* C1: round trip - the bytes that repeated Read calls deliver after a
\* successful Parse are the input bytes in order: what has been delivered is
\* always a prefix of the input, and it is the whole input once Read has
\* signalled end-of-data.
C1_RoundTrip ==
    (pc = "parsed" /\ resets = 0) =>
        /\ IsPrefix(out, consumed)
        /\ (rd.err = EOF => out = consumed)

\* C2: serialization terminates - after a successful Parse a caller that
\* keeps calling Read with a non-empty buffer eventually receives io.EOF.
C2_ReadReachesEOF == (pc = "parsed") ~> (rd.err = EOF)

\* C3: idempotent reset - after a Reset at any point the following Reads
\* start again from the first byte of the first line (a pass counts as
\* complete when every line from Head has been read to its end): the bytes delivered
\* since the Reset and the bytes delivered in the pass before it are one a
\* prefix of the other, a complete pass before the Reset bounds the pass
\* after it, a complete pass after the Reset contains the pass before it,
\* and two complete passes deliver the same byte sequence.
C3_IdempotentReset ==
    (pc \in {"parsed", "panic"} /\ resets > 0) =>
        /\ IsPrefix(out, prev) \/ IsPrefix(prev, out)
        /\ prevDone => IsPrefix(out, prev)
        /\ PassComplete => IsPrefix(prev, out)

\* A Reset part-way through a line, after which a complete pass has
\* delivered the line again from its first byte.
C3_Witness ==
    /\ pc = "parsed"
    /\ resets > 0
    /\ ~prevDone
    /\ Len(prev) = 1
    /\ PassComplete
    /\ Len(out) >= 2
    /\ out[1] # out[2]

\* C4: lossless model - after a successful Parse every line's stored nodes
\* reproduce the source bytes of that line without its newline: the i-th
\* line from Head stands for the i-th newline-terminated segment of the
\* input, and the trailing line of an input that does not end in NewLine,
\* which is Tail, stands for the rest of the input.
C4_LosslessModel ==
    pc = "parsed" =>
        LET chain == FromHead(file, lines)
            segs == Segments(consumed)
        IN /\ \A i \in 1..Len(chain) :
                i <= Len(segs) => StoredBytes(lines[chain[i]]) = segs[i]
           /\ (consumed # <<>> /\ consumed[Len(consumed)] # 10 /\ file.Tail # Nil)
                => StoredBytes(lines[file.Tail]) = segs[Len(segs)]

\* C5: every grammar violation is fatal - when a line handler rejects a byte
\* Parse returns that error and a nil File, and from then on no further byte
\* is read from the source and nothing of the parse changes.
C5_GrammarViolationFatal ==
    /\ [](ret.err # NoErr => (pc = "failed" /\ ret.file = Nil))
    /\ [][\A b \in Alphabet :
            (pc = "parsing" /\ consumed' = Append(consumed, b)
                /\ parseByte(St, b).err # NoErr)
            => (pc' = "failed" /\ ret'.file = Nil
                    /\ ret'.err = parseByte(St, b).err)]_vars
    /\ [][pc = "failed" =>
            UNCHANGED <<consumed, parser, file, lines, nodes, ret>>]_vars

\* Parse has failed on a byte in the middle of a line.
C5_Witness ==
    /\ GrammarError
    /\ ret.file = Nil
    /\ Len(consumed) >= 2
    /\ consumed[Len(consumed) - 1] # 10

\* C6: error position - when Parse fails on a byte, the error text ends in
\* " (line:L, col:C)" where L is the number of NewLine bytes consumed before
\* that byte and C the number of bytes consumed since the last of them (or
\* since the start of the input), and a message precedes it.
C6_ErrorPosition ==
    GrammarError =>
        LET before == SubSeq(consumed, 1, Len(consumed) - 1)
            newlines == {i \in DOMAIN before : before[i] = 10}
            L == Cardinality(newlines)
            C == Cardinality({i \in DOMAIN before : \A j \in newlines : j < i})
            position == <<" (line:">> \o Dec(L) \o <<", col:">> \o Dec(C) \o <<")">>
        IN /\ Len(ret.err) > Len(position)
           /\ SubSeq(ret.err, Len(ret.err) - Len(position) + 1, Len(ret.err))
                = position

\* Parse has failed on the second line, after at least one byte of it.
C6_Witness ==
    /\ GrammarError
    /\ parser.lineNo = 1
    /\ parser.colNo >= 1

\* The automaton of the value state machine, one byte at a time: 1
\* Whitespace, 2 Quoted, 3 QuotedBackslash, 4 QuotedTerminated, 9 Unquoted,
\* 10 Error.
AutomatonStep(s, b) ==
    LET ws == b \in {32, 9, 13}
    IN CASE s = 1 -> IF ws THEN 1
                     ELSE IF b = 34 THEN 2
                     ELSE IF b \in {0, 10, 35, 59} THEN 10
                     ELSE 9
         [] s = 9 -> IF b \in {0, 10, 35, 59, 34} THEN 10 ELSE 9
         [] s = 2 -> IF b = 92 THEN 3
                     ELSE IF b = 34 THEN 4
                     ELSE IF b \in {0, 10} THEN 10
                     ELSE 2
         [] s = 3 -> IF b \in {0, 10} THEN 10 ELSE 2
         [] s = 4 -> IF ws THEN 4 ELSE 10
         [] s = 10 -> 10

RECURSIVE AutomatonRun(_, _)
\* The automaton run left to right over the bytes, from state s.
AutomatonRun(s, bytes) ==
    IF bytes = <<>> THEN s
    ELSE AutomatonRun(AutomatonStep(s, Head(bytes)), Tail(bytes))

\* C7: valueStringState(content) is the state the left-to-right automaton
\* reaches from Whitespace over content, Error being absorbing.
C7_ValueStateIsAutomaton ==
    pc = "valued" => state = AutomatonRun(1, content)

\* valueStringState has been applied to an open quoted string whose escape
\* backslash was followed by a quote.
C7_Witness ==
    /\ pc = "valued"
    /\ Len(content) = 3
    /\ content[1] = 34
    /\ content[2] = 92
    /\ content[3] = 34
    /\ state = VALUE_PARSE_QUOTED

\* The classification of a byte.
KindOf(b) ==
    CASE b \in {32, 9, 13} -> 0
      [] b \in {35, 59} -> 1
      [] b = 91 -> 2
      [] b = 93 -> 3
      [] b = 10 -> 4
      [] b = 61 -> 5
      [] b = 34 -> 6
      [] OTHER -> 7

\* C8: convertToken is total over the 256 byte values - space, tab and
\* carriage return are Whitespace, '#' and ';' CommentStart, '[' SectionStart,
\* ']' SectionEnd, 0x0A NewLine, '=' Equals, '"' Quote, every other byte Other.
C8_ConvertTokenTotal ==
    \A i \in DOMAIN tokens :
        /\ tokens[i].Content = consumed[i]
        /\ tokens[i].Kind \in 0..7
        /\ tokens[i].Kind = KindOf(tokens[i].Content)

\* Tokenize has classified a carriage return.
C8_Witness ==
    /\ pc = "tokenized"
    /\ Len(tokens) >= 1
    /\ tokens[1].Content = 13
    /\ tokens[1].Kind = Whitespace

\* C9: after a successful Parse, Head and Tail are both nil if and only if
\* the input was empty, and both are non-nil for every non-empty input.
C9_HeadTailNilIffEmpty ==
    pc = "parsed" =>
        /\ (file.Head = Nil /\ file.Tail = Nil) <=> (consumed = <<>>)
        /\ consumed # <<>> => (file.Head # Nil /\ file.Tail # Nil)

\* C10: end of stream - after a successful Parse of a non-empty input, Tail
\* is the last line reachable from Head by following Next, and a trailing
\* line without NewLine is linked after the line before it.
C10_TailIsLastFromHead ==
    (pc = "parsed" /\ consumed # <<>>) =>
        LET chain == FromHead(file, lines)
        IN /\ chain # <<>>
           /\ file.Tail = chain[Len(chain)]
           /\ lines[file.Tail].next = Nil
           /\ Len(chain) >= 2 =>
                lines[file.Tail].prev = chain[Len(chain) - 1]

----------------------------------------------------------------------------
(* Properties of the lines Parse produces *)

WsBytes == {32, 9, 13}
CommentSymbols == {35, 59}
LegalKeyBytes == Byte \ ((0..31) \cup {32, 61, 91, 93})
LegalUnquotedBytes == Byte \ {0, 10, 35, 59, 34}

RECURSIVE SkipIn(_, _, _)
\* The first index from i on whose byte is not in S (Len(seg) + 1 if none).
SkipIn(seg, i, S) ==
    IF i <= Len(seg) /\ seg[i] \in S THEN SkipIn(seg, i + 1, S) ELSE i

RECURSIVE FirstIn(_, _, _)
\* The first index from i on whose byte is in S (Len(seg) + 1 if none).
FirstIn(seg, i, S) ==
    IF i <= Len(seg) /\ seg[i] \notin S THEN FirstIn(seg, i + 1, S) ELSE i

NewLines(s) == Cardinality({i \in DOMAIN s : s[i] = 10})

\* What can be seen of a node and of a line: presence, symbol and content of
\* every node, and the type of the line.
NodeView(ns, n) ==
    IF n = Nil THEN [present |-> FALSE, symbol |-> 0, content |-> <<>>]
    ELSE [present |-> TRUE, symbol |-> ns[n].symbol, content |-> ns[n].content]

LineView(ns, l) ==
    [type |-> l.type, Padding |-> NodeView(ns, l.Padding),
     Comment |-> NodeView(ns, l.Comment), Header |-> NodeView(ns, l.Header),
     PostPad |-> NodeView(ns, l.PostPad), Key |-> NodeView(ns, l.Key),
     PostKeyPad |-> NodeView(ns, l.PostKeyPad), Value |-> NodeView(ns, l.Value)]

\* The parser as Parse sets it up, before the first byte.
FreshParse ==
    [p |-> [lineNo |-> 0, colNo |-> 0, currentNode |-> 1, currentLine |-> 1,
            previousLine |-> Nil, tokenType |-> 0, currentByte |-> 0],
     f |-> [Head |-> Nil, Tail |-> Nil, readLine |-> Nil, done |-> FALSE],
     lines |-> <<EmptyLine(1)>>,
     nodes |-> <<WhitespaceNode(<<>>)>>]

RECURSIVE ParseAll(_, _, _)
\* The parser after the bytes from index i on have been fed to it.
ParseAll(st, bytes, i) ==
    IF i > Len(bytes) THEN st
    ELSE ParseAll(parseByte(st, bytes[i]).st, bytes, i + 1)

\* What Parse makes of one segment given as an input of its own, followed
\* by NewLine: the view of its only line.
ParseOfSegment(seg) ==
    LET st == ParseAll(FreshParse, seg \o <<10>>, 1)
    IN LineView(st.nodes, st.lines[st.f.Head])

\* C11: line order - after a successful Parse of an input with n NewLine
\* bytes, following Next from Head visits exactly n distinct lines, the i-th
\* being the parse of the i-th newline-terminated segment of the input.
C11_LineOrder ==
    pc = "parsed" =>
        LET chain == FromHead(file, lines)
            segs == Segments(consumed)
        IN /\ Len(chain) = NewLines(consumed)
           /\ \A i, j \in 1..Len(chain) : i # j => chain[i] # chain[j]
           /\ \A i \in 1..Len(chain) :
                LineView(nodes, lines[chain[i]]) = ParseOfSegment(segs[i])

\* C12: every line that consists only of whitespace bytes (possibly none),
\* whatever its position, is an EmptyLine whose Padding is present with the
\* bytes of the line as content and whose Comment is absent.
C12_WhitespaceLine ==
    pc = "parsed" =>
        LET chain == FromHead(file, lines)
            segs == Segments(consumed)
        IN \A i \in 1..Len(chain) :
            (i <= Len(segs) /\ \A k \in DOMAIN segs[i] : segs[i][k] \in WsBytes)
            => /\ lines[chain[i]].type = "EmptyLine"
               /\ lines[chain[i]].Padding # Nil
               /\ ContentOf(lines[chain[i]].Padding) = segs[i]
               /\ lines[chain[i]].Comment = Nil

\* C13: comment line - a line ws ++ symbol ++ text, with ws whitespace and
\* symbol '#' or ';', is an EmptyLine with Padding content ws, Comment symbol
\* symbol and Comment content text verbatim, whatever bytes text holds.
C13_CommentLine ==
    pc = "parsed" =>
        LET chain == FromHead(file, lines)
            segs == Segments(consumed)
        IN \A i \in 1..Len(chain) :
            LET seg == segs[i]
                k == SkipIn(seg, 1, WsBytes)
                l == lines[chain[i]]
            IN (k <= Len(seg) /\ seg[k] \in CommentSymbols)
               => /\ l.type = "EmptyLine"
                  /\ l.Padding # Nil
                  /\ nodes[l.Padding].content = SubSeq(seg, 1, k - 1)
                  /\ l.Comment # Nil
                  /\ nodes[l.Comment].symbol = seg[k]
                  /\ nodes[l.Comment].content = SubSeq(seg, k + 1, Len(seg))

\* Parse has read " ;#[]"=a" and its NewLine: a comment after padding whose
\* text holds a comment symbol, brackets, a quote and '='.
C13_Witness ==
    /\ pc = "parsed"
    /\ consumed = <<32, 59, 35, 91, 93, 34, 61, 97, 10>>
    /\ file.Head # Nil
    /\ lines[file.Head].Comment # Nil
    /\ nodes[lines[file.Head].Comment].content = <<35, 91, 93, 34, 61, 97>>

\* C14: section header line - a line ws1 ++ '[' ++ name ++ ']' ++ ws2 ++
\* [symbol ++ text], name without ']', '#' and ';', is a SectionHeaderLine
\* with Padding content ws1, Header content name, PostPad present with
\* content ws2, and Comment absent without a comment, else symbol and text.
C14_SectionHeaderLine ==
    pc = "parsed" =>
        LET chain == FromHead(file, lines)
            segs == Segments(consumed)
        IN \A i \in 1..Len(chain) :
            LET seg == segs[i]
                k == SkipIn(seg, 1, WsBytes)
                c == FirstIn(seg, k + 1, {93, 35, 59})
                m == SkipIn(seg, c + 1, WsBytes)
                l == lines[chain[i]]
            IN (/\ k <= Len(seg) /\ seg[k] = 91
                /\ c <= Len(seg) /\ seg[c] = 93
                /\ m <= Len(seg) => seg[m] \in CommentSymbols)
               => /\ l.type = "SectionHeaderLine"
                  /\ l.Padding # Nil
                  /\ nodes[l.Padding].content = SubSeq(seg, 1, k - 1)
                  /\ l.Header # Nil
                  /\ nodes[l.Header].content = SubSeq(seg, k + 1, c - 1)
                  /\ l.PostPad # Nil
                  /\ nodes[l.PostPad].content = SubSeq(seg, c + 1, m - 1)
                  /\ IF m > Len(seg) THEN l.Comment = Nil
                     ELSE /\ l.Comment # Nil
                          /\ nodes[l.Comment].symbol = seg[m]
                          /\ nodes[l.Comment].content = SubSeq(seg, m + 1, Len(seg))

\* Parse has read " [a] #a" and its NewLine: a section header with padding,
\* post-padding and a comment.
C14_Witness ==
    /\ pc = "parsed"
    /\ consumed = <<32, 91, 97, 93, 32, 35, 97, 10>>
    /\ file.Head # Nil
    /\ lines[file.Head].type = "SectionHeaderLine"
    /\ lines[file.Head].PostPad # Nil
    /\ nodes[lines[file.Head].PostPad].content = <<32>>
    /\ lines[file.Head].Comment # Nil

\* C15: key/value line - a line ws1 ++ key ++ ws2 ++ '=' ++ value, key
\* non-empty and of legal key bytes, value of legal unquoted-value bytes, is
\* a KeyValueLine with Padding content ws1, Key content key, PostKeyPad
\* content ws2 (absent when ws2 is empty), Value content value and no Comment.
C15_KeyValueLine ==
    pc = "parsed" =>
        LET chain == FromHead(file, lines)
            segs == Segments(consumed)
        IN \A i \in 1..Len(chain) :
            LET seg == segs[i]
                k == SkipIn(seg, 1, WsBytes)
                e0 == SkipIn(seg, k, LegalKeyBytes)
                e == SkipIn(seg, e0, WsBytes)
                l == lines[chain[i]]
            IN (/\ e0 > k
                /\ e <= Len(seg) /\ seg[e] = 61
                /\ \A j \in (e + 1)..Len(seg) : seg[j] \in LegalUnquotedBytes)
               => /\ l.type = "KeyValueLine"
                  /\ l.Padding # Nil
                  /\ nodes[l.Padding].content = SubSeq(seg, 1, k - 1)
                  /\ l.Key # Nil
                  /\ nodes[l.Key].content = SubSeq(seg, k, e0 - 1)
                  /\ IF e = e0 THEN l.PostKeyPad = Nil
                     ELSE /\ l.PostKeyPad # Nil
                          /\ nodes[l.PostKeyPad].content = SubSeq(seg, e0, e - 1)
                  /\ l.Value # Nil
                  /\ nodes[l.Value].content = SubSeq(seg, e + 1, Len(seg))
                  /\ l.Comment = Nil

RECURSIVE ClosingQuote(_, _, _)
\* The index of the byte of seg at which the value that starts at index i
\* first is a closed quoted string (Len(seg) + 1 if it never is); s is the
\* state of the value automaton before index i.
ClosingQuote(seg, i, s) ==
    IF i > Len(seg) THEN i
    ELSE LET t == AutomatonStep(s, seg[i])
         IN IF t = 4 THEN i ELSE ClosingQuote(seg, i + 1, t)

Produced == FromHead(file, lines) \o <<file.Tail>>

\* A line with a node that has a role: a header, a key, a value or a comment.
HasRoleNode(l) == l.type # "EmptyLine" \/ l.Comment # Nil

\* The bytes written for the value of a key/value line: those after the
\* first '=' of the segment, up to the comment.
RawValue(l, seg) ==
    SubSeq(seg, FirstIn(seg, 1, {61}) + 1, Len(seg) - Len(CommentBytes(l)))

\* Header, Key and Comment content hold the bytes between the delimiters:
\* the segment is the node contents with '[' and ']', '=' and the comment
\* symbol put back once each around them.
RoleBytesOutside(l, seg) ==
    IF l.type = "KeyValueLine"
    THEN LET e == FirstIn(seg, 1, {61})
         IN /\ ContentOf(l.Padding) \o ContentOf(l.Key) \o ContentOf(l.PostKeyPad)
                 = SubSeq(seg, 1, e - 1)
            /\ l.Value # Nil <=> e <= Len(seg)
            /\ CommentBytes(l)
                 = SubSeq(seg, Len(seg) - Len(CommentBytes(l)) + 1, Len(seg))
    ELSE StoredBytes(l) = seg

IsQuotedString(raw) ==
    /\ Len(raw) >= 2
    /\ raw[1] = 34
    /\ AutomatonRun(1, raw) = 4
    /\ raw[Len(raw)] = 34

\* C17 as stated: no node's content holds the delimiters of its role -
\* Header without '[' and ']', Key and Value without '=', Comment without
\* its symbol, and a quoted Value without its enclosing quotes, so that
\* k="a\"b" stores a\"b.
C17_NoDelimitersNoQuotes ==
    pc = "parsed" =>
        LET segs == Segments(consumed)
        IN \A i \in 1..Len(Produced) :
            LET l == lines[Produced[i]]
                raw == RawValue(l, segs[i])
            IN HasRoleNode(l) =>
                /\ RoleBytesOutside(l, segs[i])
                /\ l.Value # Nil =>
                     nodes[l.Value].content =
                        IF IsQuotedString(raw) THEN SubSeq(raw, 2, Len(raw) - 1)
                        ELSE raw

\* C17, amended: Header content excludes '[' and ']', Key and Value content
\* exclude the separating '=', Comment content excludes its symbol; the
\* enclosing quotes of a quoted value are part of the Value content, which
\* is the bytes after '=' exactly as written.
C17_DelimitersNotStored ==
    pc = "parsed" =>
        LET segs == Segments(consumed)
        IN \A i \in 1..Len(Produced) :
            LET l == lines[Produced[i]]
            IN HasRoleNode(l) =>
                /\ RoleBytesOutside(l, segs[i])
                /\ l.Value # Nil => nodes[l.Value].content = RawValue(l, segs[i])

\* Parse has produced a line whose value is a closed quoted string followed
\* by a comment: the stored content begins and ends with the quote byte.
C17_Witness ==
    /\ pc = "parsed"
    /\ \E i \in 1..Len(Produced) :
         LET l == lines[Produced[i]]
         IN /\ l.type = "KeyValueLine"
            /\ l.Value # Nil
            /\ IsQuotedString(nodes[l.Value].content)
            /\ l.Comment # Nil

\* C18: for every KeyValueLine produced by Parse, Value is present iff an
\* '=' was seen on the line, and Terminated() is true iff Value is present
\* and the value automaton ends in Whitespace, Unquoted or QuotedTerminated
\* on its content; a key without '=', an open quoted string and a pending
\* trailing backslash give Terminated() == false.
C18_KeyValueTerminated ==
    pc = "parsed" =>
        LET segs == Segments(consumed)
        IN \A i \in 1..Len(Produced) :
            LET l == lines[Produced[i]]
                s == AutomatonRun(1, ContentOf(l.Value))
            IN l.type = "KeyValueLine" =>
                /\ l.Value # Nil <=> 61 \in Range(segs[i])
                /\ Terminated(nodes, l) <=> (l.Value # Nil /\ s \in {1, 9, 4})
                /\ 61 \notin Range(segs[i]) => ~Terminated(nodes, l)
                /\ (l.Value # Nil /\ s \in {2, 3}) => ~Terminated(nodes, l)

\* Parse has read a="\ and its NewLine: the value is an open quoted string
\* with a pending backslash, and the line is not terminated.
C18_Witness ==
    /\ pc = "parsed"
    /\ consumed = <<97, 61, 34, 92, 10>>
    /\ file.Head # Nil
    /\ lines[file.Head].type = "KeyValueLine"
    /\ lines[file.Head].Value # Nil
    /\ AutomatonRun(1, nodes[lines[file.Head].Value].content) = 3
    /\ ~Terminated(nodes, lines[file.Head])

\* C19: for every SectionHeaderLine produced by Parse, PostPad is present
\* iff the closing ']' was seen on the line, and Terminated() is true exactly
\* then; every EmptyLine has Terminated() == true.
C19_SectionTerminated ==
    pc = "parsed" =>
        LET segs == Segments(consumed)
        IN \A i \in 1..Len(Produced) :
            LET l == lines[Produced[i]]
            IN /\ l.type = "SectionHeaderLine" =>
                    /\ l.PostPad # Nil <=> 93 \in Range(segs[i])
                    /\ Terminated(nodes, l) <=> l.PostPad # Nil
               /\ l.type = "EmptyLine" => Terminated(nodes, l)

\* Parse has read "[]", NewLine and "[": a closed section header, which is
\* terminated, and an open one at the end of the input, which is not.
C19_Witness ==
    /\ pc = "parsed"
    /\ consumed = <<91, 93, 10, 91>>
    /\ file.Head # Nil
    /\ lines[file.Head].PostPad # Nil
    /\ Terminated(nodes, lines[file.Head])
    /\ lines[file.Tail].type = "SectionHeaderLine"
    /\ lines[file.Tail].PostPad = Nil
    /\ ~Terminated(nodes, lines[file.Tail])

\* C20: neither a NewLine byte nor end-of-input ever produces a parse error,
\* whatever node is open: a grammar error is never raised on a NewLine; the
\* step that reads a NewLine keeps parsing and finalizes the line with its
\* nodes as they stand; the step at end-of-input returns the file without
\* error and leaves every line as it stands.
C20_NewLineAndEOFNeverFail ==
    /\ [](GrammarError =>
            /\ consumed # <<>>
            /\ consumed[Len(consumed)] # 10
            /\ parser.tokenType # NewLine)
    /\ [][(pc = "parsing" /\ consumed' = Append(consumed, 10)) =>
            /\ pc' = "parsing"
            /\ ret' = ret
            /\ parser'.previousLine = parser.currentLine
            /\ parser'.currentLine # parser.currentLine
            /\ LineView(nodes', lines'[parser.currentLine])
                 = LineView(nodes, lines[parser.currentLine])]_vars
    /\ [][SourceEOF =>
            /\ pc' = "parsed"
            /\ ret'.err = NoErr
            /\ file'.Tail = parser.currentLine
            /\ lines' = lines
            /\ nodes' = nodes]_vars

\* Parse has accepted an input in which a NewLine ended a line whose quoted
\* value was still open: the line is linked from Head and not terminated.
C20_Witness ==
    /\ pc = "parsed"
    /\ ret.err = NoErr
    /\ \E i \in 1..Len(FromHead(file, lines)) :
         LET l == lines[FromHead(file, lines)[i]]
         IN /\ l.type = "KeyValueLine"
            /\ l.Value # Nil
            /\ AutomatonRun(1, nodes[l.Value].content) \in {2, 3}
            /\ ~Terminated(nodes, l)

----------------------------------------------------------------------------
(* The grammar violations, one handler state at a time *)

\* The step of parse that reads byte b.
ReadsByte(b) == pc = "parsing" /\ consumed' = Append(consumed, b)

CurrentLineType == lines[parser.currentLine].type
CurrentNodeKind == nodes[parser.currentNode].kind

\* %02x as the claims write it: two lower-case hexadecimal digits.
TwoDigitHex(b) ==
    LET digit == <<"0", "1", "2", "3", "4", "5", "6", "7", "8", "9",
                   "a", "b", "c", "d", "e", "f">>
    IN <<digit[(b \div 16) + 1], digit[(b % 16) + 1]>>

\* The message of a parse error: its text before " (line:L, col:C)".
MessageOf(err) ==
    IF \E i \in DOMAIN err : err[i] = " (line:"
    THEN SubSeq(err, 1, (CHOOSE i \in DOMAIN err : err[i] = " (line:") - 1)
    ELSE err

\* Parse fails in this step with the message, and returns a nil File.
FailsWith(message) ==
    /\ pc' = "failed"
    /\ ret'.file = Nil
    /\ MessageOf(ret'.err) = message

\* C21: while the leading-whitespace node of a line is active, a byte that
\* is not whitespace, NewLine, '#', ';', '[' or a legal key byte makes Parse
\* fail with "invalid character XX for empty line" and a nil File.
C21_InvalidForEmptyLine ==
    [][\A b \in Alphabet :
        (/\ ReadsByte(b)
         /\ CurrentLineType = "EmptyLine"
         /\ CurrentNodeKind = "WhitespaceNode"
         /\ b \notin WsBytes \cup {10, 91} \cup CommentSymbols \cup LegalKeyBytes)
        => FailsWith(<<"invalid character ">> \o TwoDigitHex(b)
                        \o <<" for empty line">>)]_vars

\* Parse has failed on a ']' after the whitespace of a second line.
C21_Witness ==
    /\ GrammarError
    /\ ret.file = Nil
    /\ MessageOf(ret.err) = <<"invalid character ", "5", "d", " for empty line">>
    /\ parser.lineNo = 1
    /\ parser.colNo = 1

\* C22: key violation - while the Key node is open a byte that is not a
\* legal key byte, '=', whitespace or NewLine makes Parse fail with "invalid
\* character XX in key"; while the post-key whitespace node is open a byte
\* that is not whitespace, '=' or NewLine makes Parse fail with "invalid
\* non-whitespace character XX in key", so a key never resumes.
C22_KeyViolation ==
    [][\A b \in Alphabet :
        /\ (/\ ReadsByte(b)
            /\ CurrentLineType = "KeyValueLine"
            /\ CurrentNodeKind = "KeyNode"
            /\ b \notin LegalKeyBytes \cup {61, 10} \cup WsBytes)
           => FailsWith(<<"invalid character ">> \o TwoDigitHex(b) \o <<" in key">>)
        /\ (/\ ReadsByte(b)
            /\ CurrentLineType = "KeyValueLine"
            /\ CurrentNodeKind = "WhitespaceNode"
            /\ b \notin WsBytes \cup {61, 10})
           => FailsWith(<<"invalid non-whitespace character ">> \o TwoDigitHex(b)
                           \o <<" in key">>)]_vars

\* Parse has failed on a key byte that follows the whitespace after a key.
C22_Witness ==
    /\ GrammarError
    /\ MessageOf(ret.err)
         = <<"invalid non-whitespace character ", "6", "1", " in key">>
    /\ lines[parser.currentLine].PostKeyPad # Nil

\* C23: while a section header is open, after '[' and before the first ']',
\* a '#' or ';' makes Parse fail with "illegal comment start in bracket" and
\* a nil File.
C23_CommentStartInHeader ==
    [][\A b \in CommentSymbols :
        (/\ ReadsByte(b)
         /\ CurrentLineType = "SectionHeaderLine"
         /\ lines[parser.currentLine].PostPad = Nil)
        => FailsWith(<<"illegal comment start in bracket">>)]_vars

\* Parse has failed on a ';' inside an open, non-empty section header.
C23_Witness ==
    /\ GrammarError
    /\ ret.file = Nil
    /\ MessageOf(ret.err) = <<"illegal comment start in bracket">>
    /\ consumed[Len(consumed)] = 59
    /\ lines[parser.currentLine].Header # Nil
    /\ nodes[lines[parser.currentLine].Header].content # <<>>

\* C24: after a section header has been closed by ']', a byte before a
\* comment start that is not whitespace, '#', ';' or NewLine, a second '['
\* or ']' included, makes Parse fail with "illegal non-comment character XX
\* after closed section header" and a nil File.
C24_AfterClosedHeader ==
    [][\A b \in Alphabet :
        (/\ ReadsByte(b)
         /\ CurrentLineType = "SectionHeaderLine"
         /\ lines[parser.currentLine].PostPad # Nil
         /\ lines[parser.currentLine].Comment = Nil
         /\ b \notin WsBytes \cup CommentSymbols \cup {10})
        => FailsWith(<<"illegal non-comment character ">> \o TwoDigitHex(b)
                        \o <<" after closed section header">>)]_vars

\* Parse has failed on a second ']' after a closed section header.
C24_Witness ==
    /\ GrammarError
    /\ ret.file = Nil
    /\ MessageOf(ret.err) = <<"illegal non-comment character ", "5", "d",
                              " after closed section header">>
    /\ lines[parser.currentLine].PostPad # Nil

\* The state of the value automaton on the content of the current node.
CurrentValueState == AutomatonRun(1, nodes[parser.currentNode].content)

FillingValue ==
    /\ CurrentLineType = "KeyValueLine"
    /\ CurrentNodeKind = "ValueNode"

\* The byte of this step is appended to the node that is being filled.
Appended(b) ==
    /\ pc' = "parsing"
    /\ parser'.currentNode = parser.currentNode
    /\ nodes'[parser.currentNode].content
         = Append(nodes[parser.currentNode].content, b)

\* C25: while a Value is being filled, a Quote byte is appended exactly when
\* the state of the value is Whitespace, Quoted or QuotedBackslash; when it
\* is Unquoted or QuotedTerminated Parse fails with "illegal quote character
\* in value".
C25_QuoteInValue ==
    [][(ReadsByte(34) /\ FillingValue) =>
        /\ CurrentValueState \in {1, 2, 3, 4, 9}
        /\ Appended(34) <=> CurrentValueState \in {1, 2, 3}
        /\ CurrentValueState \in {4, 9}
             => FailsWith(<<"illegal quote character in value">>)]_vars

\* Parse has failed on a quote that follows a closed quoted value.
C25_Witness ==
    /\ GrammarError
    /\ MessageOf(ret.err) = <<"illegal quote character in value">>
    /\ consumed = <<97, 61, 34, 34, 34>>
    /\ CurrentValueState = 4

\* C26: after a quoted value has been closed, every following byte of the
\* line that is not whitespace, a comment start or NewLine is fatal; for
\* bytes other than a quote or null the message is "illegal character XX
\* after terminated quoted value".
C26_AfterClosedQuotedValue ==
    [][\A b \in Alphabet :
        (/\ ReadsByte(b)
         /\ FillingValue
         /\ CurrentValueState = 4
         /\ b \notin WsBytes \cup CommentSymbols \cup {10})
        => /\ pc' = "failed"
           /\ ret'.file = Nil
           /\ ret'.err # NoErr
           /\ b \notin {34, 0} =>
                MessageOf(ret'.err) = <<"illegal character ">> \o TwoDigitHex(b)
                                        \o <<" after terminated quoted value">>]_vars

\* Parse has failed on a letter that follows a closed quoted value.
C26_Witness ==
    /\ GrammarError
    /\ ret.file = Nil
    /\ consumed = <<97, 61, 34, 34, 97>>
    /\ MessageOf(ret.err) = <<"illegal character ", "6", "1",
                              " after terminated quoted value">>

\* " (line:L, col:C)" for a byte that follows the bytes before: L NewLine
\* bytes and C bytes since the last of them.
PositionAfter(before) ==
    LET newlines == {i \in DOMAIN before : before[i] = 10}
        C == Cardinality({i \in DOMAIN before : \A j \in newlines : j < i})
    IN <<" (line:">> \o Dec(Cardinality(newlines)) \o <<", col:">> \o Dec(C)
          \o <<")">>

\* C27: a null byte received while a Value node is being filled is always
\* fatal with "illegal character 00 in value" and the position of that
\* byte, whatever the state of the value so far.
C27_NullInValue ==
    [][(ReadsByte(0) /\ FillingValue) =>
        /\ pc' = "failed"
        /\ ret'.file = Nil
        /\ ret'.err = <<"illegal character ", "0", "0", " in value">>
                        \o PositionAfter(consumed)]_vars

\* Parse has failed on a null byte directly after an escape backslash.
C27_Witness ==
    /\ GrammarError
    /\ consumed = <<97, 61, 34, 92, 0>>
    /\ CurrentValueState = 3
    /\ ret.err = <<"illegal character ", "0", "0", " in value",
                   " (line:", "0", ", col:", "4", ")">>

----------------------------------------------------------------------------
(* Failure of the byte source *)

\* The step of parse in which the source fails: Parse ends with an error
\* and no byte has been read.
SourceFails == pc = "parsing" /\ pc' = "failed" /\ consumed' = consumed

\* errors.Unwrap of an error made with %w
Unwrap(err) ==
    IF err # <<>> /\ err[1] = "failed to read input: " THEN Tail(err) ELSE <<>>

\* C28 as stated: if the byte source fails with an error other than
\* end-of-input, Parse stops consuming, returns no File, and returns the
\* source's error as-is.
C28_SourceErrorAsIs ==
    /\ [][SourceFails => (ret'.file = Nil /\ ret'.err = SourceErr)]_vars
    /\ [][pc = "failed" => consumed' = consumed]_vars

\* C28, amended: Parse stops consuming, returns no File, and returns an
\* error that wraps the source's error: its text is "failed to read input: "
\* followed by the text of the source's error, which errors.Unwrap gives
\* back unchanged.
C28_SourceErrorWrapped ==
    /\ [][SourceFails =>
            /\ ret'.file = Nil
            /\ ret'.err = <<"failed to read input: ">> \o SourceErr
            /\ Unwrap(ret'.err) = SourceErr]_vars
    /\ [][pc = "failed" => consumed' = consumed]_vars

\* The source has failed in the middle of a key/value line.
C28_Witness ==
    /\ pc = "failed"
    /\ ~GrammarError
    /\ ret.file = Nil
    /\ Unwrap(ret.err) = SourceErr
    /\ Len(consumed) >= 2
    /\ CurrentLineType = "KeyValueLine"

----------------------------------------------------------------------------
(* Two Parse invocations whose steps interleave.  Each invocation has its  *)
(* own iniParser and IniFile; the objects both allocate live in one heap.  *)

Callers == 1..2

\* Bytes the two byte sources deliver.
CallAlphabet == {B_NEWLINE, B_SPACE, B_BRACKET, B_EQUALS, 97}

CallState_SharedParser(c) ==
    [p |-> calls[1].p, f |-> calls[c].f, lines |-> lines, nodes |-> nodes]

\* What the handlers of caller c work on: the parser and the file that
\* Parse made for c, and the heap.
CallState(c) ==
    [p |-> calls[c].p, f |-> calls[c].f, lines |-> lines, nodes |-> nodes]

InitConcurrent ==
    /\ pc = "concurrent"
    /\ calls = [c \in Callers |->
                  [pc |-> "idle", consumed |-> <<>>, p |-> FreshParse.p,
                   f |-> FreshParse.f, ret |-> [file |-> Nil, err |-> NoErr]]]
    /\ lines = <<>>
    /\ nodes = <<>>
    /\ consumed = <<>>
    /\ buf = <<0>>
    /\ parser = FreshParse.p
    /\ file = FreshParse.f
    /\ ret = [file |-> Nil, err |-> NoErr]
    /\ rd = [n |-> 0, err |-> NoErr]
    /\ out = <<>>
    /\ prev = <<>>
    /\ prevDone = FALSE
    /\ resets = 0
    /\ tokens = <<>>
    /\ content = <<>>
    /\ state = 0

\* Caller c calls Parse: parse allocates the first whitespace node and the
\* first EmptyLine.
CallParse(c) ==
    /\ calls[c].pc = "idle"
    /\ nodes' = Append(nodes, WhitespaceNode(<<>>))
    /\ lines' = Append(lines, EmptyLine(Len(nodes) + 1))
    /\ calls' = [calls EXCEPT ![c].pc = "parsing",
                              ![c].p.currentNode = Len(nodes) + 1,
                              ![c].p.currentLine = Len(lines) + 1]
    /\ UNCHANGED <<pc, consumed, buf, parser, file, ret, rd, out, prev, prevDone,
                   resets, tokens, content, state>>

\* One pass of the loop of parse of caller c, its source delivering byte b.
CallByte(c, b) ==
    /\ calls[c].pc = "parsing"
    /\ Len(calls[c].consumed) < MaxCallLen
    /\ LET r == parseByte(CallState(c), b)
       IN /\ lines' = r.st.lines
          /\ nodes' = r.st.nodes
          /\ calls' = [calls EXCEPT
                ![c].p = r.st.p,
                ![c].f = r.st.f,
                ![c].consumed = Append(@, b),
                ![c].pc = IF r.err # NoErr THEN "failed" ELSE @,
                ![c].ret = IF r.err # NoErr THEN ReturnErr(r.err) ELSE @]
    /\ UNCHANGED <<pc, consumed, buf, parser, file, ret, rd, out, prev, prevDone,
                   resets, tokens, content, state>>

\* The source of caller c reports io.EOF: parse sets Tail and returns the
\* file of c.
CallEOF(c) ==
    /\ calls[c].pc = "parsing"
    /\ calls' = [calls EXCEPT ![c].f.Tail = calls[c].p.currentLine,
                              ![c].pc = "parsed",
                              ![c].ret = [file |-> c, err |-> NoErr]]
    /\ UNCHANGED <<pc, consumed, buf, parser, file, lines, nodes, ret, rd, out,
                   prev, prevDone, resets, tokens, content, state>>

NextConcurrent ==
    \/ \E c \in Callers : CallParse(c)
    \/ \E c \in Callers, b \in CallAlphabet : CallByte(c, b)
    \/ \E c \in Callers : CallEOF(c)

SpecConcurrent == InitConcurrent /\ [][NextConcurrent]_vars

RECURSIVE ParseAlone(_, _, _)
\* parse run on its own over the bytes from index i on, up to its first
\* error.
ParseAlone(st, bytes, i) ==
    IF i > Len(bytes) THEN Ok(st)
    ELSE LET r == parseByte(st, bytes[i])
         IN IF r.err # NoErr THEN r ELSE ParseAlone(r.st, bytes, i + 1)

\* What a caller can see of a file: its lines from Head in order and the
\* line Tail refers to, whatever the addresses of the objects.
FileView(f, ls, ns) ==
    [chain |-> [i \in 1..Len(FromHead(f, ls)) |->
                    LineView(ns, ls[FromHead(f, ls)[i]])],
     tail |-> IF f.Tail = Nil THEN <<>> ELSE <<LineView(ns, ls[f.Tail])>>]

\* The result of Parse over the bytes when it runs alone and the source
\* then reports io.EOF.
ResultAlone(bytes) ==
    LET r == ParseAlone(FreshParse, bytes, 1)
    IN IF r.err # NoErr THEN [err |-> r.err, file |-> <<>>]
       ELSE [err |-> NoErr,
             file |-> <<FileView([r.st.f EXCEPT !.Tail = r.st.p.currentLine],
                                 r.st.lines, r.st.nodes)>>]

\* The result caller c has got.
ResultOf(c) ==
    IF calls[c].ret.file = Nil THEN [err |-> calls[c].ret.err, file |-> <<>>]
    ELSE [err |-> calls[c].ret.err,
          file |-> <<FileView(calls[calls[c].ret.file].f, lines, nodes)>>]

\* What caller c has built so far: its parser, its file and the line it is
\* filling.
Progress(c) ==
    [call |-> calls[c],
     file |-> FileView(calls[c].f, lines, nodes),
     current |-> IF calls[c].pc = "idle" THEN <<>>
                 ELSE <<LineView(nodes, lines[calls[c].p.currentLine])>>]

\* C29: two Parse invocations on independent byte sources, their steps
\* interleaved in any order, each return the result they return when run
\* alone, and a step of one never changes what the other has built.
C29_IndependentInvocations ==
    /\ [](\A c \in Callers :
            calls[c].pc \in {"parsed", "failed"}
                => ResultOf(c) = ResultAlone(calls[c].consumed))
    /\ [][\A c, d \in Callers :
            (c # d /\ calls'[c] # calls[c]) => Progress(d)' = Progress(d)]_vars

\* Both invocations have returned a file, for different inputs, and their
\* steps were interleaved: the lines of the two files alternate in the heap.
C29_Witness ==
    /\ calls[1].pc = "parsed"
    /\ calls[2].pc = "parsed"
    /\ calls[1].consumed # calls[2].consumed
    /\ calls[1].f.Head # Nil
    /\ calls[2].f.Head # Nil
    /\ calls[1].f.Head < calls[2].f.Head
    /\ calls[2].f.Head < calls[1].f.Tail
    /\ calls[1].f.Tail < calls[2].f.Tail

----------------------------------------------------------------------------
(* The variant of a line *)

\* A step of parse within one line: a byte other than NewLine is read.
WithinLine == pc = "parsing" /\ pc' = "parsing" /\ parser'.lineNo = parser.lineNo
                /\ consumed' # consumed

\* The bytes of the line that is being read.
CurrentSegment == Segments(consumed)[Len(Segments(consumed))]

\* C30: within one line the line variant changes at most once, from
\* EmptyLine to SectionHeaderLine or to KeyValueLine, and only while the
\* leading-whitespace node is active; once a Comment node is active the
\* variant never changes before the next NewLine, so a line whose first
\* non-whitespace byte is '#' or ';' is always an EmptyLine.
C30_VariantChangesOnce ==
    /\ [][WithinLine =>
            /\ CurrentLineType' # CurrentLineType =>
                 /\ CurrentLineType = "EmptyLine"
                 /\ CurrentLineType' \in {"SectionHeaderLine", "KeyValueLine"}
                 /\ CurrentNodeKind = "WhitespaceNode"
                 /\ lines[parser.currentLine].Comment = Nil
            /\ CurrentLineType # "EmptyLine" => CurrentLineType' = CurrentLineType
            /\ CurrentNodeKind = "CommentNode" =>
                 /\ CurrentLineType' = CurrentLineType
                 /\ CurrentNodeKind' = "CommentNode"]_vars
    /\ [](pc \in {"parsing", "parsed"} =>
            LET seg == CurrentSegment
                k == SkipIn(seg, 1, WsBytes)
            IN (k <= Len(seg) /\ seg[k] \in CommentSymbols)
                => CurrentLineType = "EmptyLine")

\* Parse is reading the line #[a] and has read its ']': the line is an
\* EmptyLine whose comment holds the brackets.
C30_Witness ==
    /\ pc = "parsing"
    /\ consumed = <<35, 91, 97, 93>>
    /\ CurrentLineType = "EmptyLine"
    /\ CurrentNodeKind = "CommentNode"
    /\ nodes[parser.currentNode].content = <<91, 97, 93>>

----------------------------------------------------------------------------
(* Comment starts in a value, NewLine, finalized lines *)

\* C31: while a Value is being filled, a '#' or ';' is appended to the value
\* exactly when the state of the value is Quoted or QuotedBackslash; in any
\* other state it is not stored in the value and opens the Comment of the
\* line with that symbol, and from then on no byte of the line reaches the
\* value.
C31_CommentStartInValue ==
    /\ [][\A b \in CommentSymbols :
            (ReadsByte(b) /\ FillingValue) =>
                IF CurrentValueState \in {VALUE_PARSE_QUOTED,
                                          VALUE_PARSE_QUOTED_BACKSLASH}
                THEN /\ Appended(b)
                     /\ lines'[parser.currentLine].Comment = Nil
                ELSE /\ pc' = "parsing"
                     /\ parser'.currentLine = parser.currentLine
                     /\ nodes'[parser.currentNode] = nodes[parser.currentNode]
                     /\ lines'[parser.currentLine].Value = parser.currentNode
                     /\ LET c == lines'[parser.currentLine].Comment
                        IN /\ c # Nil
                           /\ parser'.currentNode = c
                           /\ nodes'[c].kind = "CommentNode"
                           /\ nodes'[c].symbol = b
                           /\ nodes'[c].content = <<>>]_vars
    /\ [][(/\ WithinLine
           /\ CurrentLineType = "KeyValueLine"
           /\ CurrentNodeKind = "CommentNode") =>
             LET v == lines[parser.currentLine].Value
             IN /\ parser'.currentNode = parser.currentNode
                /\ lines'[parser.currentLine].Value = v
                /\ v # Nil => nodes'[v] = nodes[v]]_vars

\* Parse has read a ="#\"a";a: the '#' between the quotes is in the value,
\* the ';' after the closing quote opened the comment, and the byte after
\* it went to the comment.
C31_Witness ==
    /\ pc = "parsing"
    /\ consumed = <<97, 32, 61, 34, 35, 92, 34, 97, 34, 59, 97>>
    /\ CurrentLineType = "KeyValueLine"
    /\ nodes[lines[parser.currentLine].Value].content = <<34, 35, 92, 34, 97, 34>>
    /\ nodes[lines[parser.currentLine].Comment].symbol = 59
    /\ nodes[lines[parser.currentLine].Comment].content = <<97>>

\* C32: no node holds a NewLine byte; every NewLine finalizes the line in
\* progress (the lines linked from Head are as many as the NewLines read),
\* adds one to the line counter and sets the column counter to zero, so
\* that the counters are the number of NewLines read and the number of
\* bytes read since the last of them.
C32_NewLineFinalizes ==
    /\ \A n \in DOMAIN nodes : 10 \notin Range(nodes[n].content)
    /\ pc \in {"parsing", "parsed"} =>
         /\ parser.lineNo = NewLines(consumed)
         /\ parser.colNo = Len(CurrentSegment)
         /\ Len(FromHead(file, lines)) = NewLines(consumed)
         /\ parser.currentLine \notin Range(FromHead(file, lines))

\* Parse has read two NewLines and one byte of the third line.
C32_Witness ==
    /\ pc = "parsing"
    /\ consumed = <<97, 10, 10, 97>>
    /\ parser.lineNo = 2
    /\ parser.colNo = 1
    /\ Len(FromHead(file, lines)) = 2

\* C33: once a line has been finalized by a NewLine no later byte changes
\* its variant, which nodes it has, their content or its comment symbol:
\* the lines linked from Head stay the same objects in the same order, and
\* a byte changes nodes of the line in progress only.
C33_FinalizedLinesFrozen ==
    [][(pc = "parsing" /\ consumed' # consumed) =>
         LET before == FromHead(file, lines)
             after == FromHead(file', lines')
         IN /\ Len(before) <= Len(after)
            /\ SubSeq(after, 1, Len(before)) = before
            /\ \A i \in Range(before) :
                 /\ [lines'[i] EXCEPT !.next = Nil] = [lines[i] EXCEPT !.next = Nil]
                 /\ LineView(nodes', lines'[i]) = LineView(nodes, lines[i])]_vars

\* The first line, a = a with its NewLine, is linked from Head while Parse
\* has read two bytes of the second line.
C33_Witness ==
    /\ pc = "parsing"
    /\ Len(FromHead(file, lines)) = 1
    /\ lines[file.Head].type = "KeyValueLine"
    /\ nodes[lines[file.Head].Key].content = <<97>>
    /\ parser.colNo = 2
    /\ nodes[parser.currentNode].content # <<>>

----------------------------------------------------------------------------
(* Read and Reset over the parsed structure *)

\* A line without its cursor state (ReadBuf and reader).
Structure(l) == [l EXCEPT !.ReadBuf = <<>>, !.reader = NoReader]

\* C34: Read and Reset change cursor state only - readLine and done of the
\* File, ReadBuf and reader of each line; Head, Tail, the variant of every
\* line, its Next and Previous links, which nodes it has, and the content
\* and symbol of every node are left as Parse made them.
C34_ReadResetKeepStructure ==
    [][pc = "parsed" =>
         /\ nodes' = nodes
         /\ file'.Head = file.Head
         /\ file'.Tail = file.Tail
         /\ DOMAIN lines' = DOMAIN lines
         /\ \A i \in DOMAIN lines : Structure(lines'[i]) = Structure(lines[i])]_vars

\* The file of #aa\n#a\n has been read to its end, reset, and its first
\* line has been read again.
C34_Witness ==
    /\ pc = "parsed"
    /\ consumed = <<35, 97, 97, 10, 35, 97, 10>>
    /\ resets = 1
    /\ prev = <<97, 97, 97>>
    /\ out = <<97, 97>>
    /\ file.readLine = file.Head
    /\ lines[file.Head].ReadBuf = <<97, 97>>

RECURSIVE Concat(_)
Concat(seqs) == IF seqs = <<>> THEN <<>> ELSE Head(seqs) \o Concat(Tail(seqs))

\* The bytes the lines linked from Head hold for Read, whatever the sizes of
\* the buffers they are read with: what each line's Read puts in ReadBuf.
Whole ==
    Concat([i \in 1..Len(FromHead(file, lines)) |->
              Populate(nodes, ReadItems(lines[FromHead(file, lines)[i]]), 1,
                       <<>>).ReadBuf])

\* C35: the bytes successive Reads return do not depend on the sizes of the
\* buffers: whatever the sizes, what has been returned so far is a prefix
\* of the same byte sequence and, once every line has been read to its end,
\* is that sequence, in this pass and in the pass before a Reset; no byte is
\* returned twice or skipped where one line ends and the next begins.
C35_ChunkingIndependent ==
    pc \in {"parsed", "panic"} =>
        /\ IsPrefix(out, Whole)
        /\ (pc = "parsed" /\ PassComplete) => out = Whole
        /\ prevDone => prev = Whole
        /\ (file.readLine # Nil /\ FromHead(file, lines) # <<>>) =>
             \E i \in 1..Len(FromHead(file, lines)) :
                /\ FromHead(file, lines)[i] = file.readLine
                /\ \A j \in (i + 1)..Len(FromHead(file, lines)) :
                      lines[FromHead(file, lines)[j]].reader \in {NoReader, 0}

\* The three bytes of #aa\n#a\n have been returned twice, the second time
\* ending with a Read of a single byte, and both passes gave the same bytes.
C35_Witness ==
    /\ pc = "parsed"
    /\ consumed = <<35, 97, 97, 10, 35, 97, 10>>
    /\ PassComplete
    /\ resets = 1
    /\ prevDone
    /\ out = <<97, 97, 97>>
    /\ prev = out
    /\ rd.n = 1

\* C36: a Read on the File of a successful Parse never fails on an optional
\* node that is absent: no line's Read dereferences a nil node.
C36_ReadNeverPanics == pc # "panic"

----------------------------------------------------------------------------
(* The Values of a parse that has not failed *)

\* The Value nodes of the key-value lines built so far.
Values == {lines[i].Value : i \in {j \in DOMAIN lines :
                                     /\ lines[j].type = "KeyValueLine"
                                     /\ lines[j].Value # Nil}}

\* C37: while parse has not failed the valueStringState of a Value, the one
\* in progress included, is never Error: it is Whitespace, Unquoted, Quoted,
\* QuotedBackslash or QuotedTerminated; and a Value whose state is Unquoted
\* holds no '#', ';', quote or null byte.
C37_ValueNeverInError ==
    pc \in {"parsing", "parsed"} =>
        \A v \in Values :
            LET s == valueStringState(nodes[v].content)
            IN /\ s \in {VALUE_PARSE_WHITESPACE, VALUE_PARSE_UNQUOTED,
                         VALUE_PARSE_QUOTED, VALUE_PARSE_QUOTED_BACKSLASH,
                         VALUE_PARSE_QUOTED_TERMINATED}
               /\ s = VALUE_PARSE_UNQUOTED =>
                    Range(nodes[v].content) \cap {B_HASH, B_SEMICOLON, B_QUOTE, B_NULL} = {}

\* Parse has read a=\= : the value in progress is unquoted and holds a
\* backslash and an equals sign.
C37_Witness ==
    /\ pc = "parsing"
    /\ consumed = <<97, 61, 92, 61>>
    /\ parser.currentNode \in Values
    /\ nodes[parser.currentNode].content = <<92, 61>>
    /\ valueStringState(nodes[parser.currentNode].content) = VALUE_PARSE_UNQUOTED

----------------------------------------------------------------------------
(* The bytes parse processes *)

\* C38: Parse processes exactly the bytes the source has delivered, each
\* once and in order, whatever the source does: the parser is at every
\* moment what parse makes of the bytes delivered so far, a read of zero
\* bytes with no error changes nothing, and a last byte delivered together
\* with end-of-input is processed before Parse returns.
C38_ProcessesDeliveredBytes ==
    LET alone == ParseAlone(FreshParse, consumed, 1)
    IN /\ pc = "parsing" => (alone.err = NoErr /\ St = alone.st)
       /\ pc \in {"parsed", "panic"} =>
            /\ alone.err = NoErr
            /\ parser = alone.st.p
            /\ nodes = alone.st.nodes
            /\ file.Head = alone.st.f.Head
            /\ file.Tail = alone.st.p.currentLine
            /\ [i \in DOMAIN lines |-> Structure(lines[i])] = alone.st.lines
       /\ pc = "failed" =>
            \/ ret.err = ReadInputErr(SourceErr) /\ alone.err = NoErr
            \/ ret.err = alone.err /\ alone.err # NoErr

----------------------------------------------------------------------------
(* The chain of lines, end-of-data *)

\* C39: the lines are doubly linked consistently: Previous of Head is nil,
\* Previous of the Next of every line reachable from Head is that line, the
\* chain has no cycle and ends, and it holds each line finalized by a
\* NewLine exactly once.
C39_DoublyLinked ==
    LET chain == FromHead(file, lines)
    IN /\ file.Head # Nil => lines[file.Head].prev = Nil
       /\ \A i \in DOMAIN chain :
            /\ lines[chain[i]].next # Nil =>
                 lines[lines[chain[i]].next].prev = chain[i]
            /\ i > 1 => lines[chain[i]].prev = chain[i - 1]
            /\ \A j \in DOMAIN chain : chain[i] = chain[j] => i = j
       /\ chain # <<>> => lines[chain[Len(chain)]].next = Nil
       /\ pc \in {"parsing", "parsed", "panic"} => Len(chain) = NewLines(consumed)

\* Parse has returned the File of a\n[a]\n#a\n: three lines of three
\* variants are linked from Head.
C39_Witness ==
    /\ pc = "parsed"
    /\ consumed = <<97, 10, 91, 97, 93, 10, 35, 97, 10>>
    /\ Len(FromHead(file, lines)) = 3
    /\ lines[FromHead(file, lines)[1]].type = "KeyValueLine"
    /\ lines[FromHead(file, lines)[2]].type = "SectionHeaderLine"
    /\ lines[FromHead(file, lines)[3]].type = "EmptyLine"
    /\ lines[FromHead(file, lines)[3]].prev = FromHead(file, lines)[2]

\* C40: end-of-data is sticky: once a Read has returned end-of-data, every
\* later Read before a Reset returns zero bytes and end-of-data; and a Read
\* on a File whose Head is nil returns zero bytes and end-of-data, the
\* first one included.
C40_StickyEndOfData ==
    /\ [][(pc = "parsed" /\ rd.err = EOF /\ resets' = resets) =>
            /\ pc' = "parsed"
            /\ rd' = [n |-> 0, err |-> EOF]
            /\ out' = out]_vars
    /\ []((pc = "parsed" /\ file.Head = Nil) =>
            \A k \in 1..MaxBuf :
                LET r == FileRead(nodes, file, lines, k)
                IN ~r.panic /\ r.data = <<>> /\ r.err = EOF)

\* Parse has returned the File of a=a, whose Head is nil; it has been reset
\* and the last Read returned end-of-data.
C40_Witness ==
    /\ pc = "parsed"
    /\ consumed = <<97, 61, 97>>
    /\ file.Head = Nil
    /\ resets = 1
    /\ rd = [n |-> 0, err |-> EOF]
    /\ out = <<>>

====
